---- MODULE Spec2Model ----
(***************************************************************************)
(* A model of the browser-profile merge pipeline.                          *)
(*                                                                         *)
(* EnhancedMergeEngine (src/src/utils/enhancedMergeEngine.ts) is modelled  *)
(* as a state machine: one mergeProfiles call walks config.mergeTypes,     *)
(* runs one pass per data type, and every pass walks the entries of the    *)
(* sourceData map record by record, reading and writing the target         *)
(* dataset, which is the very object stored in sourceData under            *)
(* targetProfilePath.                                                      *)
(***************************************************************************)
EXTENDS Integers, Sequences, FiniteSets, TLC

\* ------------------------------------------------------------------ bounds
\* Most records one sourceData map holds in a single-type scenario.
MaxRecs == 2
\* Timestamps and use counts of input records range over 1..MaxStamp.
MaxStamp == 2
\* Longest config.mergeTypes list of the dispatch scenarios.
MaxTypes == 2
\* Most history entries one analysed dataset holds.
MaxHistory == 3
\* Longest string that is not a URL.
MaxText == 2
\* Most bookmarks one analysed dataset holds.
MaxBookmarks == 4

\* ------------------------------------------------------------------- enums
\* A member an enum object does not define reads as undefined.
Undefined == "undefined"

ConflictResolution ==
    [KEEP_NEWEST |-> "keep_newest", KEEP_OLDEST |-> "keep_oldest",
     MANUAL |-> "manual", KEEP_ALL |-> "keep_all", CUSTOM |-> "custom"]

MergeDataType ==
    [BOOKMARKS |-> "bookmarks", HISTORY |-> "history", PASSWORDS |-> "passwords",
     COOKIES |-> "cookies", EXTENSIONS |-> "extensions",
     PREFERENCES |-> "preferences", FORM_HISTORY |-> "form_history",
     PERMISSIONS |-> "permissions", SESSIONS |-> "sessions", ALL |-> "all"]

\* enum.member as JavaScript evaluates it.
Member(enum, name) == IF name \in DOMAIN enum THEN enum[name] ELSE Undefined

\* The strategies a MergeConfig can ask for.
Strategies == {"keep_newest", "keep_oldest", "keep_most_used", "keep_all", "manual"}

DataTypeValues == {MergeDataType[k] : k \in DOMAIN MergeDataType}

\* The list mergeAllDataTypes walks.
allTypes ==
    << MergeDataType.BOOKMARKS, MergeDataType.HISTORY, MergeDataType.PASSWORDS,
       MergeDataType.COOKIES, MergeDataType.EXTENSIONS, MergeDataType.FORM_HISTORY,
       MergeDataType.PERMISSIONS, MergeDataType.SESSIONS >>

\* The key of MergeResult.details a data type reports to.
DetailKeys ==
    {"bookmarks", "history", "logins", "cookies", "extensions", "formHistory",
     "permissions", "sessions"}

\* The data types whose merge is a placeholder, with their details key.
PlaceholderKey ==
    [cookies |-> "cookies", extensions |-> "extensions",
     form_history |-> "formHistory", permissions |-> "permissions",
     sessions |-> "sessions"]

\* -------------------------------------------------------------------- URLs
\* A URL string https://(www.)^www a.com (/)^slashes, kept as its parts.
Url(www, slashes) == [host |-> "a.com", www |-> www, slashes |-> slashes]

\* A string new URL() does not parse, kept as its characters.
Text(chars) == [text |-> chars]

\* The characters of the strings that are not URLs.
Chars == {"a", "A", "b", " "}

\* str.toLowerCase()
toLowerCase(str) == [i \in 1..Len(str) |-> IF str[i] = "A" THEN "a" ELSE str[i]]

\* str.trim()
RECURSIVE trim(_)
trim(str) ==
    IF str = << >> THEN str
    ELSE IF Head(str) = " " THEN trim(Tail(str))
    ELSE IF str[Len(str)] = " " THEN trim(SubSeq(str, 1, Len(str) - 1))
    ELSE str

\* normalizeUrl: protocol + '//' + hostname with one leading "www." removed
\* + pathname, then every trailing slash removed; a string that does not
\* parse is lower-cased and trimmed.
normalizeUrl(url) ==
    IF "text" \in DOMAIN url
    THEN Text(trim(toLowerCase(url.text)))
    ELSE [url EXCEPT !.www = IF @ > 0 THEN @ - 1 ELSE 0, !.slashes = 0]

\* The URLs of the merge scenarios: https://a.com and https://a.com/ .
MergeUrls == {Url(0, 0), Url(0, 1)}

\* ----------------------------------------------------------------- records
Stamps == 1..MaxStamp

\* The record fields the chosen strategy compares carry the stamp; the
\* fields it never reads stay at 1.
BookmarkField(strategy) ==
    CASE strategy = "keep_oldest" -> "dateAdded"
      [] strategy = "keep_most_used" -> "visitCount"
      [] OTHER -> "lastModified"

LoginField(strategy) ==
    CASE strategy = "keep_oldest" -> "timeCreated"
      [] strategy = "keep_most_used" -> "timesUsed"
      [] OTHER -> "timeLastUsed"

Bookmark(path, url, strategy, s) ==
    [url |-> url,
     dateAdded |-> IF BookmarkField(strategy) = "dateAdded" THEN s ELSE 1,
     lastModified |-> IF BookmarkField(strategy) = "lastModified" THEN s ELSE 1,
     visitCount |-> IF BookmarkField(strategy) = "visitCount" THEN s ELSE 1,
     source |-> path]

HistoryEntry(path, url, count, time) ==
    [url |-> url, visitCount |-> count, lastVisitTime |-> time, source |-> path]

Login(path, username, strategy, s) ==
    [hostname |-> "a.com", username |-> username,
     timeCreated |-> IF LoginField(strategy) = "timeCreated" THEN s ELSE 1,
     timeLastUsed |-> IF LoginField(strategy) = "timeLastUsed" THEN s ELSE 1,
     timesUsed |-> IF LoginField(strategy) = "timesUsed" THEN s ELSE 1,
     source |-> path]

Usernames == {"bob", "eve"}

\* Spread as a plain copy that forgets the mergedFrom tag.
Spread_untagged(record, profilePath) == record

\* { ...record, mergedFrom: profilePath }
Spread(record, profilePath) ==
    [f \in DOMAIN record \cup {"mergedFrom"} |->
        IF f = "mergedFrom" THEN profilePath ELSE record[f]]

\* ------------------------------------------------------------------- state
VARIABLES
    sourceData,         \* the Map, in insertion order: <<[path, bookmarks, history, logins]>>
    targetProfilePath,  \* the targetProfilePath argument
    config,             \* [mergeTypes, conflictResolution, dryRun]
    result,             \* the MergeResult under construction
    pc,                 \* "idle", "loop", "bookmarks", "history", "logins", "done"
    typeIdx,            \* position in config.mergeTypes
    allIdx,             \* position in allTypes, 0 outside mergeAllDataTypes
    srcIdx,             \* the sourceData entry a pass is at
    recIdx,             \* the record of that entry the pass is at
    merged,             \* the pass's local counter
    conflicts,          \* the pass's local counter
    before,             \* sourceData as the running call found it
    prevResult,         \* the MergeResult of the call before, NoResult if none
    passLog,            \* the data types whose merge has run in this call
    calls,              \* two overlapping mergeProfiles calls and the microtask queue
    recovery,           \* one run of SQLiteCorruptionHandler.recoverDatabase
    dedup,              \* one run of DeduplicationEngine.analyzeDataset over raw profiles
    analysis,           \* one run of DeduplicationEngine.analyzeDataset with its config
    similarity,         \* the similarity functions applied to a pair of strings
    panel               \* the MergeConfiguration component and the App state it edits

vars ==
    << sourceData, targetProfilePath, config, result, pc, typeIdx, allIdx,
       srcIdx, recIdx, merged, conflicts, before, prevResult, passLog,
       calls, recovery, dedup, analysis, similarity, panel >>

\* The state of the components a step of the single merge call leaves alone.
offStage == << calls, recovery, dedup, analysis, similarity, panel >>

\* The value of a component's state while it is not running.
NotRunning == [pc |-> "off"]

NoResult == [success |-> FALSE, none |-> TRUE]

ZeroDetails == [k \in DetailKeys |-> [merged |-> 0, conflicts |-> 0]]

EmptyResult ==
    [success |-> FALSE, mergedItems |-> 0, conflictsResolved |-> 0,
     errors |-> << >>, details |-> ZeroDetails]

\* ------------------------------------------------------------------ inputs
ProfilePaths == {"/p/a", "/p/b"}

\* The maps over these paths, in every insertion order.
Layouts ==
    {<<p>> : p \in ProfilePaths} \cup
    {<<p, q>> : <<p, q>> \in {pq \in ProfilePaths \X ProfilePaths : pq[1] # pq[2]}}

SeqsOfLen(S, n) == [1..n -> S]

SeqsUpTo(S, n) == UNION {SeqsOfLen(S, k) : k \in 0..n}

\* How many records each entry of a layout holds: at most MaxRecs in all.
Shapes(layout) ==
    IF Len(layout) = 1
    THEN {<<k>> : k \in 0..MaxRecs}
    ELSE {<<k, j>> : <<k, j>> \in {kj \in (0..MaxRecs) \X (0..MaxRecs) : kj[1] + kj[2] <= MaxRecs}}

BookmarkPool(path, strategy) ==
    {Bookmark(path, u, strategy, s) : <<u, s>> \in MergeUrls \X Stamps}

HistoryPool(path) ==
    {HistoryEntry(path, u, c, t) : <<u, c, t>> \in MergeUrls \X Stamps \X Stamps}

LoginPool(path, strategy) ==
    {Login(path, n, strategy, s) : <<n, s>> \in Usernames \X Stamps}

\* One value of the Map. missing: the array properties this extraction result
\* does not have (they read as undefined; the model keeps << >> in their place).
Entry(path, bookmarks, history, logins) ==
    [path |-> path, bookmarks |-> bookmarks, history |-> history, logins |-> logins,
     missing |-> {}]

\* One record of each type per profile: the target's ("/p/a") older than the
\* other profile's, all with the same identity keys.
SampleEntry(path, strategy) ==
    LET s == IF path = "/p/a" THEN 1 ELSE MaxStamp IN
    Entry(path,
          << Bookmark(path, Url(0, 0), strategy, s) >>,
          << HistoryEntry(path, Url(0, 0), s, s) >>,
          << Login(path, "bob", strategy, s) >>)

TypeLists == SeqsUpTo(DataTypeValues, MaxTypes)

Config(types, strategy, dry) ==
    [mergeTypes |-> types, conflictResolution |-> strategy, dryRun |-> dry]

InitControl ==
    /\ targetProfilePath = "/p/a"
    /\ result = EmptyResult
    /\ pc = "idle"
    /\ typeIdx = 0
    /\ allIdx = 0
    /\ srcIdx = 0
    /\ recIdx = 0
    /\ merged = 0
    /\ conflicts = 0
    /\ before = sourceData
    /\ prevResult = NoResult
    /\ passLog = << >>
    /\ calls = NotRunning
    /\ recovery = NotRunning
    /\ dedup = NotRunning
    /\ analysis = NotRunning
    /\ similarity = NotRunning
    /\ panel = NotRunning

\* Bookmarks only, every strategy.
InitBookmarks ==
    \E layout \in Layouts, strategy \in Strategies :
      \E shape \in Shapes(layout) :
        \E l1 \in SeqsOfLen(BookmarkPool(layout[1], strategy), shape[1]) :
          \E l2 \in (IF Len(layout) = 2
                      THEN SeqsOfLen(BookmarkPool(layout[2], strategy), shape[2])
                      ELSE {<< >>}) :
            /\ sourceData = [i \in 1..Len(layout) |->
                  LET list == IF i = 1 THEN l1 ELSE l2 IN Entry(layout[i], list, << >>, << >>)]
            /\ config = Config(<< MergeDataType.BOOKMARKS >>, strategy, FALSE)

\* History only; mergeHistory never reads the strategy.
InitHistory ==
    \E layout \in Layouts :
      \E shape \in Shapes(layout) :
        \E l1 \in SeqsOfLen(HistoryPool(layout[1]), shape[1]) :
          \E l2 \in (IF Len(layout) = 2
                      THEN SeqsOfLen(HistoryPool(layout[2]), shape[2])
                      ELSE {<< >>}) :
            /\ sourceData = [i \in 1..Len(layout) |->
                  LET list == IF i = 1 THEN l1 ELSE l2 IN Entry(layout[i], << >>, list, << >>)]
            /\ config = Config(<< MergeDataType.HISTORY >>, ConflictResolution.KEEP_ALL, FALSE)

\* Logins only, every strategy.
InitLogins ==
    \E layout \in Layouts, strategy \in Strategies :
      \E shape \in Shapes(layout) :
        \E l1 \in SeqsOfLen(LoginPool(layout[1], strategy), shape[1]) :
          \E l2 \in (IF Len(layout) = 2
                      THEN SeqsOfLen(LoginPool(layout[2], strategy), shape[2])
                      ELSE {<< >>}) :
            /\ sourceData = [i \in 1..Len(layout) |->
                  LET list == IF i = 1 THEN l1 ELSE l2 IN Entry(layout[i], << >>, << >>, list)]
            /\ config = Config(<< MergeDataType.PASSWORDS >>, strategy, FALSE)

\* Every list of data types, over the sample records.
InitDispatch ==
    \E layout \in Layouts, strategy \in {"keep_newest", "manual"}, types \in TypeLists :
      /\ sourceData = [i \in 1..Len(layout) |-> SampleEntry(layout[i], strategy)]
      /\ config = Config(types, strategy, FALSE)

\* Every list of data types, over the sample records, with one array of the
\* other profile's extraction result missing.
InitFailing ==
    \E layout \in {<<"/p/a", "/p/b">>, <<"/p/b", "/p/a">>},
       types \in TypeLists, field \in {"bookmarks", "history", "logins"} :
      /\ sourceData = [i \in 1..2 |->
            IF layout[i] = "/p/b"
            THEN [SampleEntry(layout[i], "keep_newest") EXCEPT
                    ![field] = << >>, !.missing = {field}]
            ELSE SampleEntry(layout[i], "keep_newest")]
      /\ config = Config(types, "keep_newest", FALSE)

Init ==
    /\ InitBookmarks \/ InitHistory \/ InitLogins \/ InitDispatch \/ InitFailing
    /\ InitControl

\* ------------------------------------------------------------ the engine
\* sourceData.get(targetProfilePath): the entry's position, 0 when undefined.
TargetIdx ==
    IF \E i \in 1..Len(sourceData) : sourceData[i].path = targetProfilePath
    THEN CHOOSE i \in 1..Len(sourceData) : sourceData[i].path = targetProfilePath
    ELSE 0

\* targetData.toString(): a plain object prints as this, whatever it holds.
\* No profile path of ProfilePaths is this string.
TargetToString == "[object Object]"

\* The guard that makes a pass skip an entry of sourceData.
SkipsEntry(data, field, i) ==
    data[i].path = TargetToString
    \/ (field \notin data[i].missing /\ Len(data[i][field]) = 0)

\* Reading .length of an array the entry does not have throws a TypeError.
ThrowsAt(data, field, i) == field \in data[i].missing

\* The first entry at or after `from` that the pass does not skip.
NextEntry(data, field, from) ==
    IF \E i \in from..Len(data) : ~SkipsEntry(data, field, i)
    THEN CHOOSE i \in from..Len(data) :
            /\ ~SkipsEntry(data, field, i)
            /\ \A j \in from..(i - 1) : SkipsEntry(data, field, j)
    ELSE Len(data) + 1

\* The record after record r of entry s: the array is read as it is now.
NextRecord(data, field, s, r) ==
    IF r + 1 <= Len(data[s][field])
    THEN << s, r + 1 >>
    ELSE << NextEntry(data, field, s + 1), 1 >>

\* findBookmark as a lookup that compares the wrong field and so never hits.
findBookmark_neverFinds(list, bookmark) == 0

\* targetData.bookmarks.find(b => b.url === bookmark.url), as the index of
\* the hit, 0 for undefined.
findBookmark(list, bookmark) ==
    IF \E i \in 1..Len(list) : list[i].url = bookmark.url
    THEN CHOOSE i \in 1..Len(list) :
            /\ list[i].url = bookmark.url
            /\ \A j \in 1..(i - 1) : list[j].url # bookmark.url
    ELSE 0

findHistory(list, historyEntry) ==
    IF \E i \in 1..Len(list) : list[i].url = historyEntry.url
    THEN CHOOSE i \in 1..Len(list) :
            /\ list[i].url = historyEntry.url
            /\ \A j \in 1..(i - 1) : list[j].url # historyEntry.url
    ELSE 0

findLogin(list, login) ==
    IF \E i \in 1..Len(list) :
          list[i].hostname = login.hostname /\ list[i].username = login.username
    THEN CHOOSE i \in 1..Len(list) :
            /\ list[i].hostname = login.hostname /\ list[i].username = login.username
            /\ \A j \in 1..(i - 1) :
                  ~(list[j].hostname = login.hostname /\ list[j].username = login.username)
    ELSE 0

\* shouldReplaceBookmark with MANUAL falling through to the newest-wins test.
shouldReplaceBookmark_manualReplaces(existing, incoming, strategy) ==
    CASE strategy = Member(ConflictResolution, "KEEP_NEWEST") ->
            incoming.lastModified > existing.lastModified
      [] strategy = Member(ConflictResolution, "KEEP_OLDEST") ->
            incoming.dateAdded < existing.dateAdded
      [] strategy = Member(ConflictResolution, "KEEP_MOST_USED") ->
            incoming.visitCount > existing.visitCount
      [] strategy = Member(ConflictResolution, "MANUAL") ->
            incoming.lastModified > existing.lastModified
      [] OTHER -> FALSE

shouldReplaceBookmark(existing, incoming, strategy) ==
    CASE strategy = Member(ConflictResolution, "KEEP_NEWEST") ->
            incoming.lastModified > existing.lastModified
      [] strategy = Member(ConflictResolution, "KEEP_OLDEST") ->
            incoming.dateAdded < existing.dateAdded
      [] strategy = Member(ConflictResolution, "KEEP_MOST_USED") ->
            incoming.visitCount > existing.visitCount
      [] strategy = Member(ConflictResolution, "MANUAL") -> FALSE
      [] OTHER -> FALSE

\* shouldReplaceLogin letting an incoming login of the same age win.
shouldReplaceLogin_tieReplaces(existing, incoming, strategy) ==
    CASE strategy = Member(ConflictResolution, "KEEP_NEWEST") ->
            incoming.timeLastUsed >= existing.timeLastUsed
      [] strategy = Member(ConflictResolution, "KEEP_OLDEST") ->
            incoming.timeCreated < existing.timeCreated
      [] strategy = Member(ConflictResolution, "KEEP_MOST_USED") ->
            incoming.timesUsed > existing.timesUsed
      [] strategy = Member(ConflictResolution, "MANUAL") -> FALSE
      [] OTHER -> FALSE

shouldReplaceLogin(existing, incoming, strategy) ==
    CASE strategy = Member(ConflictResolution, "KEEP_NEWEST") ->
            incoming.timeLastUsed > existing.timeLastUsed
      [] strategy = Member(ConflictResolution, "KEEP_OLDEST") ->
            incoming.timeCreated < existing.timeCreated
      [] strategy = Member(ConflictResolution, "KEEP_MOST_USED") ->
            incoming.timesUsed > existing.timesUsed
      [] strategy = Member(ConflictResolution, "MANUAL") -> FALSE
      [] OTHER -> FALSE

\* mergeBookmark without the dryRun guards around its two writes.
mergeBookmark_ignoresDryRun(list, bookmark, profilePath, cfg) ==
    LET index == findBookmark(list, bookmark) IN
    IF index # 0
    THEN IF shouldReplaceBookmark(list[index], bookmark, cfg.conflictResolution)
         THEN [list |-> [list EXCEPT ![index] = Spread(bookmark, profilePath)],
               merged |-> 1, conflicts |-> 1]
         ELSE [list |-> list, merged |-> 0, conflicts |-> 1]
    ELSE [list |-> Append(list, Spread(bookmark, profilePath)),
          merged |-> 1, conflicts |-> 0]

\* One turn of mergeBookmarks' inner loop: the target array after it and what
\* it adds to the pass's counters.
mergeBookmark(list, bookmark, profilePath, cfg) ==
    LET index == findBookmark(list, bookmark) IN
    IF index # 0
    THEN IF shouldReplaceBookmark(list[index], bookmark, cfg.conflictResolution)
         THEN [list |-> IF ~cfg.dryRun
                        THEN [list EXCEPT ![index] = Spread(bookmark, profilePath)]
                        ELSE list,
               merged |-> 1, conflicts |-> 1]
         ELSE [list |-> list, merged |-> 0, conflicts |-> 1]
    ELSE [list |-> IF ~cfg.dryRun
                   THEN Append(list, Spread(bookmark, profilePath))
                   ELSE list,
          merged |-> 1, conflicts |-> 0]

\* One turn of mergeHistory's inner loop.
mergeHistoryEntry(list, historyEntry, profilePath, cfg) ==
    LET index == findHistory(list, historyEntry) IN
    IF index # 0
    THEN [list |-> IF ~cfg.dryRun
                   THEN [list EXCEPT
                           ![index].visitCount = @ + historyEntry.visitCount,
                           ![index].lastVisitTime =
                               IF historyEntry.lastVisitTime > @
                               THEN historyEntry.lastVisitTime ELSE @]
                   ELSE list,
          merged |-> 1, conflicts |-> 1]
    ELSE [list |-> IF ~cfg.dryRun
                   THEN Append(list, Spread(historyEntry, profilePath))
                   ELSE list,
          merged |-> 1, conflicts |-> 0]

\* One turn of mergeLogins' inner loop.
mergeLogin(list, login, profilePath, cfg) ==
    LET index == findLogin(list, login) IN
    IF index # 0
    THEN IF shouldReplaceLogin(list[index], login, cfg.conflictResolution)
         THEN [list |-> IF ~cfg.dryRun
                        THEN [list EXCEPT ![index] = Spread(login, profilePath)]
                        ELSE list,
               merged |-> 1, conflicts |-> 1]
         ELSE [list |-> list, merged |-> 0, conflicts |-> 1]
    ELSE [list |-> IF ~cfg.dryRun
                   THEN Append(list, Spread(login, profilePath))
                   ELSE list,
          merged |-> 1, conflicts |-> 0]

\* The data type the loop of mergeProfiles or of mergeAllDataTypes is at.
CurrentType ==
    IF allIdx > 0 THEN allTypes[allIdx] ELSE config.mergeTypes[typeIdx]

AtType ==
    /\ pc = "loop"
    /\ \/ allIdx > 0
       \/ typeIdx <= Len(config.mergeTypes) /\ CurrentType # MergeDataType.ALL

\* The loop moves on: to the next of allTypes, out of mergeProfiles' loop
\* after mergeAllDataTypes (the break), or to the next of config.mergeTypes.
NextType ==
    IF allIdx > 0
    THEN IF allIdx < Len(allTypes)
         THEN /\ allIdx' = allIdx + 1
              /\ typeIdx' = typeIdx
         ELSE /\ allIdx' = 0
              /\ typeIdx' = Len(config.mergeTypes) + 1
    ELSE /\ allIdx' = 0
         /\ typeIdx' = typeIdx + 1

\* The array a pass works on, by the pass's name.
PassField == [bookmarks |-> "bookmarks", history |-> "history", logins |-> "logins"]

PassOf == [bookmarks |-> "bookmarks", history |-> "history", passwords |-> "logins"]

\* mergeProfiles is called and finds its target.
mergeProfiles(dry) ==
    /\ \/ pc = "idle"
       \/ pc = "done" /\ config.dryRun /\ ~dry /\ prevResult = NoResult
    /\ TargetIdx # 0
    /\ config' = [config EXCEPT !.dryRun = dry]
    /\ prevResult' = IF pc = "done" THEN result ELSE NoResult
    /\ result' = EmptyResult
    /\ before' = sourceData
    /\ passLog' = << >>
    /\ pc' = "loop"
    /\ typeIdx' = 1
    /\ allIdx' = 0
    /\ UNCHANGED << offStage, sourceData, targetProfilePath, srcIdx, recIdx, merged, conflicts >>

\* An entry of result.errors: the pieces of its template string
\* `${prefix} ${subject}: ${message}`.
ErrorText(prefix, subject, message) == << prefix, subject, message >>

\* missingTargetResult going on as if the merge had had nothing to do.
missingTargetResult_succeeds(res, path) == [res EXCEPT !.success = TRUE]

\* What the catch of mergeProfiles leaves in the result when the target is
\* missing: `Merge failed: Target profile data not found: ${path}`.
missingTargetResult(res, path) ==
    [res EXCEPT !.errors =
        Append(@, ErrorText("Merge failed:", "Target profile data not found", path))]

\* mergeProfiles is called for a target that sourceData does not hold: the
\* throw lands in its own catch.
mergeProfilesNoTarget(dry) ==
    /\ pc = "idle"
    /\ TargetIdx = 0
    /\ config' = [config EXCEPT !.dryRun = dry]
    /\ result' = missingTargetResult(EmptyResult, targetProfilePath)
    /\ before' = sourceData
    /\ passLog' = << >>
    /\ pc' = "done"
    /\ UNCHANGED << offStage, sourceData, targetProfilePath, typeIdx, allIdx, srcIdx, recIdx,
                    merged, conflicts, prevResult >>

\* The loop of mergeProfiles reaches ALL.
mergeAllDataTypes ==
    /\ pc = "loop"
    /\ allIdx = 0
    /\ typeIdx <= Len(config.mergeTypes)
    /\ config.mergeTypes[typeIdx] = MergeDataType.ALL
    /\ allIdx' = 1
    /\ UNCHANGED << offStage, sourceData, targetProfilePath, config, result, pc, typeIdx,
                    srcIdx, recIdx, merged, conflicts, before, prevResult, passLog >>

\* mergeSpecificDataType enters mergeBookmarks, mergeHistory or mergeLogins.
mergeSpecificDataType ==
    /\ AtType
    /\ CurrentType \in DOMAIN PassOf
    /\ pc' = PassOf[CurrentType]
    /\ srcIdx' = NextEntry(sourceData, PassField[PassOf[CurrentType]], 1)
    /\ recIdx' = 1
    /\ merged' = 0
    /\ conflicts' = 0
    /\ passLog' = Append(passLog, CurrentType)
    /\ UNCHANGED << offStage, sourceData, targetProfilePath, config, result, typeIdx, allIdx,
                    before, prevResult >>

\* storeTarget writing the array back to the entry the record came from.
storeTarget_intoSource(data, target, from, field, list) ==
    [data EXCEPT ![from][field] = list]

\* The writes of a pass go to targetData's array: the entry of sourceData
\* under targetProfilePath, whatever entry (from) the record came from.
storeTarget(data, target, from, field, list) ==
    [data EXCEPT ![target][field] = list]

\* One record of one entry goes through a pass.
PassStep(field, out) ==
    LET data == storeTarget(sourceData, TargetIdx, srcIdx, field, out.list)
        next == NextRecord(data, field, srcIdx, recIdx)
    IN  /\ sourceData' = data
        /\ srcIdx' = next[1]
        /\ recIdx' = next[2]
        /\ merged' = merged + out.merged
        /\ conflicts' = conflicts + out.conflicts
        /\ UNCHANGED << offStage, targetProfilePath, config, result, pc, typeIdx, allIdx,
                        before, prevResult, passLog >>

mergeBookmarks ==
    /\ pc = "bookmarks"
    /\ srcIdx <= Len(sourceData)
    /\ ~ThrowsAt(sourceData, "bookmarks", srcIdx)
    /\ PassStep("bookmarks",
                mergeBookmark(sourceData[TargetIdx].bookmarks,
                              sourceData[srcIdx].bookmarks[recIdx],
                              sourceData[srcIdx].path, config))

mergeHistory ==
    /\ pc = "history"
    /\ srcIdx <= Len(sourceData)
    /\ ~ThrowsAt(sourceData, "history", srcIdx)
    /\ PassStep("history",
                mergeHistoryEntry(sourceData[TargetIdx].history,
                                  sourceData[srcIdx].history[recIdx],
                                  sourceData[srcIdx].path, config))

mergeLogins ==
    /\ pc = "logins"
    /\ srcIdx <= Len(sourceData)
    /\ ~ThrowsAt(sourceData, "logins", srcIdx)
    /\ PassStep("logins",
                mergeLogin(sourceData[TargetIdx].logins,
                           sourceData[srcIdx].logins[recIdx],
                           sourceData[srcIdx].path, config))

\* typeFailureResult dropping the error.
typeFailureResult_swallows(res, dataType) == res

\* What the catch of mergeSpecificDataType leaves in the result:
\* `Failed to merge ${dataType}: ${message}`.
typeFailureResult(res, dataType) ==
    [res EXCEPT !.errors =
        Append(@, ErrorText("Failed to merge", dataType, "TypeError"))]

\* A pass throws at an entry; the catch of mergeSpecificDataType records it
\* and the loop goes on. The pass's counters never reach result.details.
mergeSpecificDataTypeCatch ==
    /\ pc \in DOMAIN PassField
    /\ srcIdx <= Len(sourceData)
    /\ ThrowsAt(sourceData, pc, srcIdx)
    /\ result' = typeFailureResult(result, CurrentType)
    /\ pc' = "loop"
    /\ NextType
    /\ UNCHANGED << offStage, sourceData, targetProfilePath, config, srcIdx, recIdx,
                    merged, conflicts, before, prevResult, passLog >>

\* A pass has walked every entry: it stores its counters and returns.
mergePassReturn ==
    /\ pc \in DOMAIN PassField
    /\ srcIdx > Len(sourceData)
    /\ result' = [result EXCEPT
                    !.details[pc] = [merged |-> merged, conflicts |-> conflicts]]
    /\ pc' = "loop"
    /\ NextType
    /\ UNCHANGED << offStage, sourceData, targetProfilePath, config, srcIdx, recIdx, merged,
                    conflicts, before, prevResult, passLog >>

\* placeholderResult reporting the missing implementation as an error.
placeholderResult_reportsError(res, key) ==
    [res EXCEPT !.details[key] = [merged |-> 0, conflicts |-> 0],
                !.errors = Append(@, ErrorText("Failed to merge", key, "not yet implemented"))]

\* What a placeholder merge leaves in the result.
placeholderResult(res, key) ==
    [res EXCEPT !.details[key] = [merged |-> 0, conflicts |-> 0]]

\* mergeCookies, mergeExtensions, mergeFormHistory, mergePermissions,
\* mergeSessions.
mergePlaceholder ==
    /\ AtType
    /\ CurrentType \in DOMAIN PlaceholderKey
    /\ result' = placeholderResult(result, PlaceholderKey[CurrentType])
    /\ passLog' = Append(passLog, CurrentType)
    /\ NextType
    /\ UNCHANGED << offStage, sourceData, targetProfilePath, config, pc, srcIdx, recIdx,
                    merged, conflicts, before, prevResult >>

\* The default branch of mergeSpecificDataType's switch: a warning, no merge.
mergeUnknownType ==
    /\ AtType
    /\ CurrentType \notin DOMAIN PassOf \cup DOMAIN PlaceholderKey
    /\ NextType
    /\ UNCHANGED << offStage, sourceData, targetProfilePath, config, result, pc, srcIdx,
                    recIdx, merged, conflicts, before, prevResult, passLog >>

SumMerged(details) ==
    details.bookmarks.merged + details.history.merged + details.logins.merged
    + details.cookies.merged + details.extensions.merged
    + details.formHistory.merged + details.permissions.merged
    + details.sessions.merged

SumConflicts(details) ==
    details.bookmarks.conflicts + details.history.conflicts
    + details.logins.conflicts + details.cookies.conflicts
    + details.extensions.conflicts + details.formHistory.conflicts
    + details.permissions.conflicts + details.sessions.conflicts

\* What mergeProfiles sets after its loop.
totalsResult(res) ==
    [res EXCEPT !.success = (Len(res.errors) = 0),
                !.mergedItems = SumMerged(res.details),
                !.conflictsResolved = SumConflicts(res.details)]

\* The loop of mergeProfiles is over: success and the totals are set.
mergeProfilesReturn ==
    /\ pc = "loop"
    /\ allIdx = 0
    /\ typeIdx > Len(config.mergeTypes)
    /\ result' = totalsResult(result)
    /\ pc' = "done"
    /\ UNCHANGED << offStage, sourceData, targetProfilePath, config, typeIdx, allIdx, srcIdx,
                    recIdx, merged, conflicts, before, prevResult, passLog >>

Next ==
    \/ \E dry \in BOOLEAN : mergeProfiles(dry)
    \/ \E dry \in BOOLEAN : mergeProfilesNoTarget(dry)
    \/ mergeAllDataTypes
    \/ mergeSpecificDataType
    \/ mergeBookmarks
    \/ mergeHistory
    \/ mergeLogins
    \/ mergeSpecificDataTypeCatch
    \/ mergePassReturn
    \/ mergePlaceholder
    \/ mergeUnknownType
    \/ mergeProfilesReturn

Spec == Init /\ [][Next]_vars

\* ------------------------------------------- two overlapping merge calls
\* mergeProfiles, mergeAllDataTypes and mergeSpecificDataType are async: each
\* await hands control back, and the rest of the function runs as a microtask.
\* mergeBookmarks, mergeHistory, mergeLogins and the placeholders hold no
\* await: a pass runs from its first record to its last in one piece.

\* One turn of a pass's inner loop, by the array the pass works on.
mergeRecord(field, list, record, profilePath, cfg) ==
    CASE field = "bookmarks" -> mergeBookmark(list, record, profilePath, cfg)
      [] field = "history" -> mergeHistoryEntry(list, record, profilePath, cfg)
      [] field = "logins" -> mergeLogin(list, record, profilePath, cfg)

\* A whole pass from record r of entry s on: the map after it, the counters,
\* and whether it threw.
RECURSIVE RunPass(_, _, _, _, _, _, _)
RunPass(data, target, field, cfg, s, r, count) ==
    IF s > Len(data)
    THEN [data |-> data, merged |-> count.merged, conflicts |-> count.conflicts,
          threw |-> FALSE]
    ELSE IF ThrowsAt(data, field, s)
    THEN [data |-> data, merged |-> count.merged, conflicts |-> count.conflicts,
          threw |-> TRUE]
    ELSE LET out == mergeRecord(field, data[target][field], data[s][field][r],
                                data[s].path, cfg)
             after == storeTarget(data, target, s, field, out.list)
             next == NextRecord(after, field, s, r)
         IN  RunPass(after, target, field, cfg, next[1], next[2],
                     [merged |-> count.merged + out.merged,
                      conflicts |-> count.conflicts + out.conflicts])

\* The data types the overlapping calls are asked for.
OverlapTypeLists ==
    SeqsUpTo({MergeDataType.BOOKMARKS, MergeDataType.PREFERENCES, MergeDataType.ALL},
             MaxTypes)

\* A call not yet made. at: "new", "awaitPass" (mergeSpecificDataType waits
\* for its pass), "awaitSpecific" (the loop waits for mergeSpecificDataType),
\* "awaitAll" (mergeProfiles waits for mergeAllDataTypes), "done".
NewFrame(types) ==
    [at |-> "new", config |-> Config(types, "keep_newest", FALSE),
     typeIdx |-> 0, allIdx |-> 0, result |-> EmptyResult]

\* The single call's variables, at rest.
InitNoSingleCall ==
    /\ config = Config(<< >>, "keep_newest", FALSE)
    /\ result = EmptyResult
    /\ pc = "off"
    /\ typeIdx = 0
    /\ allIdx = 0
    /\ srcIdx = 0
    /\ recIdx = 0
    /\ merged = 0
    /\ conflicts = 0
    /\ prevResult = NoResult
    /\ passLog = << >>

InitOverlap ==
    /\ \E layout \in {<<"/p/a", "/p/b">>, <<"/p/b", "/p/a">>},
          types1 \in OverlapTypeLists, types2 \in OverlapTypeLists :
         /\ sourceData = [i \in 1..2 |-> SampleEntry(layout[i], "keep_newest")]
         /\ calls = [pc |-> "on", frames |-> << NewFrame(types1), NewFrame(types2) >>,
                     queue |-> << >>, touched |-> << >>]
    /\ targetProfilePath = "/p/a"
    /\ before = sourceData
    /\ recovery = NotRunning
    /\ dedup = NotRunning
    /\ analysis = NotRunning
    /\ similarity = NotRunning
    /\ panel = NotRunning
    /\ InitNoSingleCall

FrameType(f) ==
    IF f.allIdx > 0 THEN allTypes[f.allIdx] ELSE f.config.mergeTypes[f.typeIdx]

\* A call runs from the head of its loop to its next await or to its return:
\* the frame and the map after that, and whether a pass used the target.
Advance(f, data) ==
    LET g == IF /\ f.allIdx = 0
                /\ f.typeIdx <= Len(f.config.mergeTypes)
                /\ f.config.mergeTypes[f.typeIdx] = MergeDataType.ALL
             THEN [f EXCEPT !.allIdx = 1]
             ELSE f
    IN  IF g.allIdx = 0 /\ g.typeIdx > Len(g.config.mergeTypes)
        THEN [frame |-> [g EXCEPT !.at = "done", !.result = totalsResult(@)],
              data |-> data, touch |-> FALSE]
        ELSE IF g.allIdx > Len(allTypes)
        THEN [frame |-> [g EXCEPT !.at = "awaitAll"], data |-> data, touch |-> FALSE]
        ELSE IF FrameType(g) \in DOMAIN PassOf
        THEN LET field == PassField[PassOf[FrameType(g)]]
                 target == CHOOSE i \in 1..Len(data) : data[i].path = targetProfilePath
                 run == RunPass(data, target, field, g.config,
                                NextEntry(data, field, 1), 1,
                                [merged |-> 0, conflicts |-> 0])
             IN  [frame |-> [g EXCEPT
                      !.at = "awaitPass",
                      !.result = IF run.threw
                                 THEN typeFailureResult(@, FrameType(g))
                                 ELSE [@ EXCEPT !.details[field] =
                                         [merged |-> run.merged,
                                          conflicts |-> run.conflicts]]],
                  data |-> run.data, touch |-> TRUE]
        ELSE IF FrameType(g) \in DOMAIN PlaceholderKey
        THEN [frame |-> [g EXCEPT
                  !.at = "awaitPass",
                  !.result = placeholderResult(@, PlaceholderKey[FrameType(g)])],
              data |-> data, touch |-> FALSE]
        ELSE [frame |-> [g EXCEPT !.at = "awaitSpecific"], data |-> data,
              touch |-> FALSE]

\* Call c goes on from frame f, taken off the microtask queue if it was on it.
Continue(c, f, queue) ==
    LET a == Advance(f, sourceData) IN
    /\ sourceData' = a.data
    /\ calls' = [calls EXCEPT
          !.frames[c] = a.frame,
          !.queue = IF a.frame.at = "done" THEN queue ELSE Append(queue, c),
          !.touched = IF a.touch THEN Append(@, c) ELSE @]

overlapFrame ==
    << targetProfilePath, config, result, pc, typeIdx, allIdx, srcIdx, recIdx,
       merged, conflicts, before, prevResult, passLog, recovery, dedup,
       analysis, similarity, panel >>

\* mergeProfiles is called: it runs up to its first await.
mergeProfilesCalled(c) ==
    /\ calls.pc = "on"
    /\ calls.frames[c].at = "new"
    /\ Continue(c, [calls.frames[c] EXCEPT !.typeIdx = 1], calls.queue)
    /\ UNCHANGED overlapFrame

\* The microtask at the head of the queue: mergeSpecificDataType goes on
\* after its pass and returns, which readies the loop that awaits it.
mergeSpecificDataTypeResumes ==
    /\ calls.pc = "on"
    /\ calls.queue # << >>
    /\ LET c == Head(calls.queue) IN
         /\ calls.frames[c].at = "awaitPass"
         /\ calls' = [calls EXCEPT !.frames[c].at = "awaitSpecific",
                                   !.queue = Append(Tail(@), c)]
    /\ UNCHANGED << sourceData, overlapFrame >>

\* The microtask at the head of the queue: the loop of mergeProfiles or of
\* mergeAllDataTypes goes on to its next data type.
mergeLoopResumes ==
    /\ calls.pc = "on"
    /\ calls.queue # << >>
    /\ LET c == Head(calls.queue)
           f == calls.frames[c]
       IN  /\ f.at = "awaitSpecific"
           /\ Continue(c,
                       IF f.allIdx > 0
                       THEN [f EXCEPT !.allIdx = @ + 1]
                       ELSE [f EXCEPT !.typeIdx = @ + 1],
                       Tail(calls.queue))
    /\ UNCHANGED overlapFrame

\* The microtask at the head of the queue: mergeProfiles goes on after
\* mergeAllDataTypes, breaks out of its loop and returns.
mergeAllDataTypesReturned ==
    /\ calls.pc = "on"
    /\ calls.queue # << >>
    /\ LET c == Head(calls.queue)
           f == calls.frames[c]
       IN  /\ f.at = "awaitAll"
           /\ Continue(c,
                       [f EXCEPT !.allIdx = 0, !.typeIdx = Len(f.config.mergeTypes) + 1],
                       Tail(calls.queue))
    /\ UNCHANGED overlapFrame

NextOverlap ==
    \/ \E c \in 1..2 : mergeProfilesCalled(c)
    \/ mergeSpecificDataTypeResumes
    \/ mergeLoopResumes
    \/ mergeAllDataTypesReturned

SpecOverlap == InitOverlap /\ [][NextOverlap]_vars

\* ------------------------------------- SQLiteCorruptionHandler.recoverDatabase
\* The tables .dump looks for and the tables .recover looks for.
dumpTables == {"moz_bookmarks", "moz_places", "moz_historyvisits", "moz_logins"}

recoverTables ==
    {"moz_bookmarks", "moz_places", "moz_historyvisits", "moz_logins", "moz_cookies"}

\* The tables of the database file: all that a recovery can bring back from it.
Schema == dumpTables \cup recoverTables

\* getFileSize(filePath): the size of the file. The body shipped stands in
\* for the file system with a random 1,000,000..50,999,999; the empty file
\* that line 796 tests for has size 0.
FileSizes == {0, 1000000, 50999999}

corruptionTypes == {"none", "header", "page", "index", "schema"}

corruptionDetails ==
    [header |-> [message |-> "SQLite header is corrupted or invalid",
                 recoverable |-> TRUE],
     page |-> [message |-> "Database pages are corrupted - some data may be unreadable",
               recoverable |-> TRUE],
     index |-> [message |-> "Database indexes are corrupted but data may be intact",
                recoverable |-> TRUE],
     schema |-> [message |-> "Database schema is corrupted - structure may be damaged",
                 recoverable |-> TRUE]]

\* The CorruptionCheckResult for a file size and a drawn corruption type.
integrityResult(fileSize, randomType) ==
    IF fileSize = 0
    THEN [isCorrupted |-> TRUE, errorType |-> "header",
          errorMessage |-> "Database file is empty", recoverable |-> FALSE]
    ELSE IF randomType = "none"
    THEN [isCorrupted |-> FALSE, errorType |-> "none", errorMessage |-> "",
          recoverable |-> TRUE]
    ELSE [isCorrupted |-> TRUE, errorType |-> randomType,
          errorMessage |-> corruptionDetails[randomType].message,
          recoverable |-> corruptionDetails[randomType].recoverable]

RecoveryResult(success, method, recoveredTables, lostData, errorLog, outputSize) ==
    [success |-> success, method |-> method, recoveredTables |-> recoveredTables,
     lostData |-> lostData, errorLog |-> errorLog, outputSize |-> outputSize]

NoRecoveryResult == RecoveryResult(FALSE, "none", {}, {}, << >>, 0)

\* The result of one recovery method that looked for allTables and read
\* recoveredTables of them.
methodResult(method, allTables, recoveredTables, outputSize, failure) ==
    IF recoveredTables # {}
    THEN RecoveryResult(TRUE, method, recoveredTables, allTables \ recoveredTables,
                        << >>, outputSize)
    ELSE RecoveryResult(FALSE, method, {}, {}, << failure >>, 0)

\* mayRecover trusting every corrupted file to be recoverable.
mayRecover_always(integrityCheck) == TRUE

\* The test that lets recoverDatabase go on to the recovery methods.
mayRecover(integrityCheck) == integrityCheck.recoverable

\* methodSucceeded asking for every table, not for one.
methodSucceeded_wantsAll(methodOutcome) ==
    methodOutcome.success /\ methodOutcome.lostData = {}

\* The test recoverDatabase applies to the result of a method.
methodSucceeded(methodOutcome) ==
    methodOutcome.success /\ Cardinality(methodOutcome.recoveredTables) > 0

\* exhaustedResult reporting nothing lost.
exhaustedResult_noLoss(dumpResult, recoverResult) ==
    RecoveryResult(FALSE, "manual_export", {}, dumpResult.lostData,
                   dumpResult.errorLog \o recoverResult.errorLog
                   \o << "Manual recovery may be possible with specialized tools" >>, 0)

\* What recoverDatabase returns when both methods failed.
exhaustedResult(dumpResult, recoverResult) ==
    RecoveryResult(FALSE, "manual_export", {}, {"entire_database"},
                   dumpResult.errorLog \o recoverResult.errorLog
                   \o << "Manual recovery may be possible with specialized tools" >>, 0)

InitRecovery ==
    /\ recovery = [pc |-> "start", fileSize |-> 0,
                   integrityCheck |-> integrityResult(1, "none"),
                   dumpResult |-> NoRecoveryResult, recoverResult |-> NoRecoveryResult,
                   attempts |-> << >>, result |-> NoRecoveryResult]
    /\ sourceData = << >>
    /\ targetProfilePath = "/p/a"
    /\ before = sourceData
    /\ calls = NotRunning
    /\ dedup = NotRunning
    /\ analysis = NotRunning
    /\ similarity = NotRunning
    /\ panel = NotRunning
    /\ InitNoSingleCall

recoveryFrame ==
    << sourceData, targetProfilePath, config, result, pc, typeIdx, allIdx, srcIdx,
       recIdx, merged, conflicts, before, prevResult, passLog, calls, dedup,
       analysis, similarity, panel >>

\* recoverDatabase is called and awaits checkDatabaseIntegrity.
checkDatabaseIntegrity ==
    /\ recovery.pc = "start"
    /\ \E fileSize \in FileSizes, randomType \in corruptionTypes :
         recovery' = [recovery EXCEPT
            !.pc = "checked",
            !.fileSize = fileSize,
            !.integrityCheck = integrityResult(fileSize, randomType)]
    /\ UNCHANGED recoveryFrame

\* The database is not corrupted: no recovery needed.
recoverDatabaseHealthy ==
    /\ recovery.pc = "checked"
    /\ ~recovery.integrityCheck.isCorrupted
    /\ recovery' = [recovery EXCEPT
          !.pc = "done",
          !.result = RecoveryResult(TRUE, "none", {}, {}, << >>, 0)]
    /\ UNCHANGED recoveryFrame

\* The database is corrupted and not recoverable.
recoverDatabaseUnrecoverable ==
    /\ recovery.pc = "checked"
    /\ recovery.integrityCheck.isCorrupted
    /\ ~mayRecover(recovery.integrityCheck)
    /\ recovery' = [recovery EXCEPT
          !.pc = "done",
          !.result = RecoveryResult(FALSE, "none", {}, {"entire_database"},
                                    << recovery.integrityCheck.errorMessage >>, 0)]
    /\ UNCHANGED recoveryFrame

\* recoverDatabase awaits attemptDumpRecovery: each table is read with
\* Math.random() > 0.2.
attemptDumpRecovery ==
    /\ recovery.pc = "checked"
    /\ recovery.integrityCheck.isCorrupted
    /\ mayRecover(recovery.integrityCheck)
    /\ \E recoveredTables \in SUBSET dumpTables, outputSize \in {100000, 1099999} :
         recovery' = [recovery EXCEPT
            !.pc = "dumped",
            !.attempts = Append(@, "dump"),
            !.dumpResult =
                methodResult("dump", dumpTables, recoveredTables, outputSize,
                             "No tables could be recovered from database dump")]
    /\ UNCHANGED recoveryFrame

\* The dump brought tables back: its result is returned.
recoverDatabaseReturnsDump ==
    /\ recovery.pc = "dumped"
    /\ methodSucceeded(recovery.dumpResult)
    /\ recovery' = [recovery EXCEPT !.pc = "done", !.result = recovery.dumpResult]
    /\ UNCHANGED recoveryFrame

\* recoverDatabase awaits attemptRecoverCommand: each table is read with
\* Math.random() > 0.1.
attemptRecoverCommand ==
    /\ recovery.pc = "dumped"
    /\ ~methodSucceeded(recovery.dumpResult)
    /\ \E recoveredTables \in SUBSET recoverTables, outputSize \in {200000, 1399999} :
         recovery' = [recovery EXCEPT
            !.pc = "recovered",
            !.attempts = Append(@, "recover"),
            !.recoverResult =
                methodResult("recover", recoverTables, recoveredTables, outputSize,
                             "Recovery command found no salvageable data")]
    /\ UNCHANGED recoveryFrame

\* .recover brought tables back: its result is returned.
recoverDatabaseReturnsRecover ==
    /\ recovery.pc = "recovered"
    /\ methodSucceeded(recovery.recoverResult)
    /\ recovery' = [recovery EXCEPT !.pc = "done", !.result = recovery.recoverResult]
    /\ UNCHANGED recoveryFrame

\* Both methods failed.
recoverDatabaseExhausted ==
    /\ recovery.pc = "recovered"
    /\ ~methodSucceeded(recovery.recoverResult)
    /\ recovery' = [recovery EXCEPT
          !.pc = "done",
          !.result = exhaustedResult(recovery.dumpResult, recovery.recoverResult)]
    /\ UNCHANGED recoveryFrame

NextRecovery ==
    \/ checkDatabaseIntegrity
    \/ recoverDatabaseHealthy
    \/ recoverDatabaseUnrecoverable
    \/ attemptDumpRecovery
    \/ recoverDatabaseReturnsDump
    \/ attemptRecoverCommand
    \/ recoverDatabaseReturnsRecover
    \/ recoverDatabaseExhausted

\* Every awaited step of recoverDatabase returns.
SpecRecovery == InitRecovery /\ [][NextRecovery]_vars /\ WF_vars(NextRecovery)

\* ------------------------------------ normalizer and DeduplicationEngine
BrowserTypes == {"firefox", "chrome"}

\* The id a raw record carries: 0 when it has none.
RawIds == {0, 1}

\* The URLs of the analysed history: https://a.com, https://www.a.com,
\* https://www.www.a.com and https://a.com/ .
DedupUrls == {Url(0, 0), Url(1, 0), Url(2, 0), Url(0, 1)}

\* The origins of the analysed logins: https://a.com and https://www.a.com .
LoginOrigins == {Url(0, 0), Url(1, 0)}

RawHistoryPool == {[id |-> i, url |-> u] : <<i, u>> \in RawIds \X DedupUrls}

RawLoginPool ==
    {[id |-> i, origin |-> o, username |-> n, password |-> pw] :
        <<i, o, n, pw>> \in RawIds \X LoginOrigins \X Usernames \X {"x", "y"}}

\* extractDomain: new URL(url).hostname, which keeps a leading "www.".
extractDomain(url) == [host |-> url.host, www |-> url.www]

\* `${prefix}_${record.id || index}`, index counted from 0.
recordId(prefix, rawId, index) == << prefix, IF rawId # 0 THEN rawId ELSE index >>

\* normalizeFirefoxHistory / normalizeChromeHistory for one profile.
normalizeHistory(profile) ==
    [k \in 1..Len(profile.history) |->
        [id |-> recordId(IF profile.browserType = "firefox" THEN "ff_hist" ELSE "chr_hist",
                         profile.history[k].id, k - 1),
         url |-> profile.history[k].url,
         sourceProfile |-> profile.path,
         sourceBrowser |-> profile.browserType]]

\* normalizeFirefoxLogins / normalizeChromeLogins for one profile.
normalizeLogins(profile) ==
    [k \in 1..Len(profile.logins) |->
        [id |-> recordId(IF profile.browserType = "firefox" THEN "ff_login" ELSE "chr_login",
                         profile.logins[k].id, k - 1),
         url |-> profile.logins[k].origin,
         domain |-> extractDomain(profile.logins[k].origin),
         username |-> profile.logins[k].username,
         passwordHash |-> profile.logins[k].password,
         sourceProfile |-> profile.path,
         sourceBrowser |-> profile.browserType]]

\* createUniversalDataset: the profiles' records, normalized, profile after
\* profile.
RECURSIVE universalDataset(_)
universalDataset(profiles) ==
    IF profiles = << >>
    THEN [history |-> << >>, logins |-> << >>]
    ELSE LET rest == universalDataset(Tail(profiles)) IN
         [history |-> normalizeHistory(Head(profiles)) \o rest.history,
          logins |-> normalizeLogins(Head(profiles)) \o rest.logins]

\* The urlGroups Map of findHistoryDuplicates after the entries from k on:
\* its keys in insertion order, each with the positions of its entries.
RECURSIVE groupByUrl(_, _, _)
groupByUrl(history, k, urlGroups) ==
    IF k > Len(history)
    THEN urlGroups
    ELSE LET normalized == normalizeUrl(history[k].url)
             has == \E g \in 1..Len(urlGroups) : urlGroups[g].key = normalized
         IN  groupByUrl(history, k + 1,
                 IF has
                 THEN [g \in 1..Len(urlGroups) |->
                         IF urlGroups[g].key = normalized
                         THEN [urlGroups[g] EXCEPT !.entries = Append(@, k)]
                         ELSE urlGroups[g]]
                 ELSE Append(urlGroups, [key |-> normalized, entries |-> << k >>]))

\* keepsGroup letting a single entry make a group.
keepsGroup_single(entries) == Len(entries) > 0

\* The test that makes a list of entries a duplicate group.
keepsGroup(entries) == Len(entries) > 1

\* The second loop of findHistoryDuplicates. items are positions in the
\* analysed array; confidence is in hundredths.
RECURSIVE historyGroups(_, _, _)
historyGroups(urlGroups, g, duplicateGroups) ==
    IF g > Len(urlGroups)
    THEN duplicateGroups
    ELSE historyGroups(urlGroups, g + 1,
            IF keepsGroup(urlGroups[g].entries)
            THEN Append(duplicateGroups,
                        [id |-> << "history_dup", Len(duplicateGroups) >>,
                         type |-> "history", items |-> urlGroups[g].entries,
                         confidence |-> 100])
            ELSE duplicateGroups)

findHistoryDuplicates(history) ==
    historyGroups(groupByUrl(history, 1, << >>), 1, << >>)

\* The inner loop of findLoginDuplicates from j on.
RECURSIVE loginMatches(_, _, _, _, _)
loginMatches(logins, i, j, processed, duplicates) ==
    IF j > Len(logins)
    THEN [processed |-> processed, duplicates |-> duplicates]
    ELSE IF logins[j].id \in processed
    THEN loginMatches(logins, i, j + 1, processed, duplicates)
    ELSE IF logins[i].domain = logins[j].domain /\ logins[i].username = logins[j].username
    THEN loginMatches(logins, i, j + 1, processed \cup {logins[j].id},
                      Append(duplicates, j))
    ELSE loginMatches(logins, i, j + 1, processed, duplicates)

\* The outer loop of findLoginDuplicates from i on.
RECURSIVE loginGroups(_, _, _, _)
loginGroups(logins, i, processed, duplicateGroups) ==
    IF i > Len(logins)
    THEN duplicateGroups
    ELSE IF logins[i].id \in processed
    THEN loginGroups(logins, i + 1, processed, duplicateGroups)
    ELSE LET found == loginMatches(logins, i, i + 1, processed \cup {logins[i].id},
                                   << i >>)
         IN  loginGroups(logins, i + 1, found.processed,
                 IF keepsGroup(found.duplicates)
                 THEN Append(duplicateGroups,
                             [id |-> << "login_dup", Len(duplicateGroups) >>,
                              type |-> "login", items |-> found.duplicates,
                              confidence |-> 95])
                 ELSE duplicateGroups)

findLoginDuplicates(logins) == loginGroups(logins, 1, {}, << >>)

RawProfile(path, browserType, history, logins) ==
    [path |-> path, browserType |-> browserType, history |-> history, logins |-> logins]

\* How many records each of two profiles holds, n at most in all.
PairShapes(n) == {kj \in (0..n) \X (0..n) : kj[1] + kj[2] <= n}

\* Two profiles with history only, or with logins only.
InitDedup ==
    /\ \E browser1 \in BrowserTypes, browser2 \in BrowserTypes :
        \E kind \in {"history", "logins"} :
        \E shape \in PairShapes(IF kind = "history" THEN MaxHistory ELSE MaxRecs) :
         \E l1 \in SeqsOfLen(IF kind = "history" THEN RawHistoryPool ELSE RawLoginPool,
                             shape[1]) :
          \E l2 \in SeqsOfLen(IF kind = "history" THEN RawHistoryPool ELSE RawLoginPool,
                              shape[2]) :
            dedup = [pc |-> "extracted",
                     profiles |->
                        IF kind = "history"
                        THEN << RawProfile("/p/a", browser1, l1, << >>),
                                RawProfile("/p/b", browser2, l2, << >>) >>
                        ELSE << RawProfile("/p/a", browser1, << >>, l1),
                                RawProfile("/p/b", browser2, << >>, l2) >>,
                     dataset |-> [history |-> << >>, logins |-> << >>],
                     duplicateGroups |-> << >>]
    /\ sourceData = << >>
    /\ targetProfilePath = "/p/a"
    /\ before = sourceData
    /\ calls = NotRunning
    /\ recovery = NotRunning
    /\ analysis = NotRunning
    /\ similarity = NotRunning
    /\ panel = NotRunning
    /\ InitNoSingleCall

dedupFrame ==
    << sourceData, targetProfilePath, config, result, pc, typeIdx, allIdx, srcIdx,
       recIdx, merged, conflicts, before, prevResult, passLog, calls, recovery,
       analysis, similarity, panel >>

createUniversalDataset ==
    /\ dedup.pc = "extracted"
    /\ dedup' = [dedup EXCEPT !.pc = "normalized",
                              !.dataset = universalDataset(dedup.profiles)]
    /\ UNCHANGED dedupFrame

\* analyzeDataset awaits findHistoryDuplicates.
analyzeHistory ==
    /\ dedup.pc = "normalized"
    /\ dedup' = [dedup EXCEPT
          !.pc = "history",
          !.duplicateGroups = @ \o findHistoryDuplicates(dedup.dataset.history)]
    /\ UNCHANGED dedupFrame

\* analyzeDataset awaits findLoginDuplicates and returns.
analyzeLogins ==
    /\ dedup.pc = "history"
    /\ dedup' = [dedup EXCEPT
          !.pc = "done",
          !.duplicateGroups = @ \o findLoginDuplicates(dedup.dataset.logins)]
    /\ UNCHANGED dedupFrame

NextDedup ==
    \/ createUniversalDataset
    \/ analyzeHistory
    \/ analyzeLogins

SpecDedup == InitDedup /\ [][NextDedup]_vars

\* ------------------------------------------- MergeConfiguration.toggleMergeType
\* The data types whose buttons are pressed, of the nine the panel shows,
\* and the "all" button.
ToggleTypes ==
    {MergeDataType.BOOKMARKS, MergeDataType.HISTORY, MergeDataType.PASSWORDS,
     MergeDataType.COOKIES, MergeDataType.PREFERENCES, MergeDataType.ALL}

\* list.includes(x)
includes(list, x) == \E i \in 1..Len(list) : list[i] = x

\* list.filter(t => t !== x)
RECURSIVE without(_, _)
without(list, x) ==
    IF list = << >>
    THEN << >>
    ELSE (IF Head(list) # x THEN << Head(list) >> ELSE << >>) \o without(Tail(list), x)

\* toggledTypes adding a concrete type to the list as it is, ALL included.
toggledTypes_keepsAll(mergeTypes, type) ==
    IF type = MergeDataType.ALL
    THEN IF includes(mergeTypes, MergeDataType.ALL) THEN << >> ELSE << MergeDataType.ALL >>
    ELSE IF includes(mergeTypes, type)
         THEN without(mergeTypes, type)
         ELSE Append(mergeTypes, type)

\* The mergeTypes list toggleMergeType hands to updateConfig.
toggledTypes(mergeTypes, type) ==
    IF type = MergeDataType.ALL
    THEN IF includes(mergeTypes, MergeDataType.ALL) THEN << >> ELSE << MergeDataType.ALL >>
    ELSE LET newTypes == without(mergeTypes, MergeDataType.ALL) IN
         IF includes(newTypes, type)
         THEN without(newTypes, type)
         ELSE Append(newTypes, type)

\* The panel is shown with the App's mergeConfig, or with an empty selection.
InitPanel ==
    /\ \E types \in {<< >>, << MergeDataType.ALL >>} :
          panel = [pc |-> "shown", initial |-> types, config |-> [mergeTypes |-> types]]
    /\ sourceData = << >>
    /\ targetProfilePath = "/p/a"
    /\ before = sourceData
    /\ calls = NotRunning
    /\ recovery = NotRunning
    /\ dedup = NotRunning
    /\ analysis = NotRunning
    /\ similarity = NotRunning
    /\ InitNoSingleCall

panelFrame ==
    << sourceData, targetProfilePath, config, result, pc, typeIdx, allIdx, srcIdx,
       recIdx, merged, conflicts, before, prevResult, passLog, calls, recovery,
       dedup, analysis, similarity >>

\* A button is pressed: updateConfig hands { ...config, mergeTypes } to
\* onConfigChange and the panel is rendered again with it.
toggleMergeType(type) ==
    /\ panel.pc = "shown"
    /\ panel' = [panel EXCEPT
                   !.config.mergeTypes = toggledTypes(panel.config.mergeTypes, type)]
    /\ UNCHANGED panelFrame

NextPanel == \E type \in ToggleTypes : toggleMergeType(type)

SpecPanel == InitPanel /\ [][NextPanel]_vars

\* ------------------------------------------------- the similarity functions
RECURSIVE Repeat(_, _)
Repeat(str, n) == IF n = 0 THEN << >> ELSE str \o Repeat(str, n - 1)

\* The characters of a URL string: https://(www.)^www a.com (/)^slashes .
chars(url) ==
    IF "text" \in DOMAIN url
    THEN url.text
    ELSE << "h", "t", "t", "p", "s", ":", "/", "/" >>
         \o Repeat(<< "w", "w", "w", "." >>, url.www)
         \o << "a", ".", "c", "o", "m" >>
         \o Repeat(<< "/" >>, url.slashes)

\* str.includes(part)
includesString(str, part) ==
    \E k \in 0..(Len(str) - Len(part)) :
        \A i \in 1..Len(part) : str[k + i] = part[i]

Min3(a, b, c) ==
    IF a <= b THEN (IF a <= c THEN a ELSE c) ELSE (IF b <= c THEN b ELSE c)

\* One row of the matrix of levenshteinDistance, from column i on: above is
\* the row over it, row what the columns before i hold, c the character of
\* str2 the row stands for. A row holds columns 0..str1.length at positions
\* 1..str1.length+1.
RECURSIVE matrixRow(_, _, _, _, _)
matrixRow(str1, c, above, row, i) ==
    IF i > Len(str1)
    THEN row
    ELSE LET indicator == IF str1[i] = c THEN 0 ELSE 1 IN
         matrixRow(str1, c, above,
                   row \o << Min3(row[i] + 1, above[i + 1] + 1, above[i] + indicator) >>,
                   i + 1)

\* The matrix with its rows from row j on filled in; row 0 is at position 1.
RECURSIVE matrixFrom(_, _, _, _)
matrixFrom(str1, str2, matrix, j) ==
    IF j > Len(str2)
    THEN matrix
    ELSE matrixFrom(str1, str2,
                    Append(matrix,
                           matrixRow(str1, str2[j], matrix[Len(matrix)], << j >>, 1)),
                    j + 1)

\* levenshteinDistance: matrix[str2.length][str1.length].
levenshteinDistance(str1, str2) ==
    matrixFrom(str1, str2, << [i \in 1..(Len(str1) + 1) |-> i - 1] >>, 1)
        [Len(str2) + 1][Len(str1) + 1]

\* A similarity is the exact quotient num / den.
Ratio(num, den) == [num |-> num, den |-> den]

SameRatio(x, y) == x.num * y.den = y.num * x.den

\* x >= h / 100
AtLeast(x, h) == x.num * 100 >= h * x.den

\* x > h / 100
Above(x, h) == x.num * 100 > h * x.den

\* calculateStringSimilarity dividing by the length of its first argument.
calculateStringSimilarity_overFirst(str1, str2) ==
    IF str1 = str2 THEN Ratio(1, 1)
    ELSE LET longer == IF Len(str1) > Len(str2) THEN str1 ELSE str2
             shorter == IF Len(str1) > Len(str2) THEN str2 ELSE str1
         IN  IF Len(str1) = 0 THEN Ratio(1, 1)
             ELSE Ratio(Len(str1) - levenshteinDistance(toLowerCase(longer),
                                                        toLowerCase(shorter)),
                        Len(str1))

calculateStringSimilarity(str1, str2) ==
    IF str1 = str2 THEN Ratio(1, 1)
    ELSE LET longer == IF Len(str1) > Len(str2) THEN str1 ELSE str2
             shorter == IF Len(str1) > Len(str2) THEN str2 ELSE str1
         IN  IF Len(longer) = 0 THEN Ratio(1, 1)
             ELSE Ratio(Len(longer) - levenshteinDistance(toLowerCase(longer),
                                                          toLowerCase(shorter)),
                        Len(longer))

calculateUrlSimilarity(url1, url2) ==
    IF url1 = url2 THEN Ratio(1, 1)
    ELSE LET norm1 == chars(normalizeUrl(url1))
             norm2 == chars(normalizeUrl(url2))
         IN  IF norm1 = norm2 THEN Ratio(95, 100)
             ELSE IF includesString(norm1, norm2) \/ includesString(norm2, norm1)
             THEN Ratio(80, 100)
             ELSE calculateStringSimilarity(norm1, norm2)

\* The strings the functions are applied to: every text of MaxText
\* characters at most, and the URLs https://a.com, https://www.a.com,
\* https://www.www.a.com, https://a.com/ and https://a.com// .
Texts == {Text(str) : str \in SeqsUpTo(Chars, MaxText)}

SampleUrls == {Url(0, 0), Url(1, 0), Url(2, 0), Url(0, 1), Url(0, 2)}

InitSimilarity ==
    /\ \E a \in Texts \cup SampleUrls, b \in Texts \cup SampleUrls :
          similarity = [pc |-> "drawn", a |-> a, b |-> b]
    /\ sourceData = << >>
    /\ targetProfilePath = "/p/a"
    /\ before = sourceData
    /\ calls = NotRunning
    /\ recovery = NotRunning
    /\ dedup = NotRunning
    /\ analysis = NotRunning
    /\ panel = NotRunning
    /\ InitNoSingleCall

similarityFrame ==
    << sourceData, targetProfilePath, config, result, pc, typeIdx, allIdx, srcIdx,
       recIdx, merged, conflicts, before, prevResult, passLog, calls, recovery,
       dedup, analysis, panel >>

\* normalizeUrl(a)
normalizeOnce ==
    /\ similarity.pc = "drawn"
    /\ similarity' =
          [pc |-> "normalized", a |-> similarity.a, b |-> similarity.b,
           once |-> normalizeUrl(similarity.a)]
    /\ UNCHANGED similarityFrame

\* normalizeUrl(normalizeUrl(a))
normalizeTwice ==
    /\ similarity.pc = "normalized"
    /\ similarity' =
          [pc |-> "normalized twice", a |-> similarity.a, b |-> similarity.b,
           once |-> similarity.once, twice |-> normalizeUrl(similarity.once)]
    /\ UNCHANGED similarityFrame

\* Both functions on a and b in both orders, and on a and a.
compare ==
    /\ similarity.pc = "drawn"
    /\ similarity' =
          [pc |-> "compared", a |-> similarity.a, b |-> similarity.b,
           string |-> calculateStringSimilarity(chars(similarity.a), chars(similarity.b)),
           stringBack |-> calculateStringSimilarity(chars(similarity.b), chars(similarity.a)),
           stringSelf |-> calculateStringSimilarity(chars(similarity.a), chars(similarity.a)),
           url |-> calculateUrlSimilarity(similarity.a, similarity.b),
           urlBack |-> calculateUrlSimilarity(similarity.b, similarity.a),
           urlSelf |-> calculateUrlSimilarity(similarity.a, similarity.a)]
    /\ UNCHANGED similarityFrame

NextSimilarity ==
    \/ normalizeOnce
    \/ normalizeTwice
    \/ compare

SpecSimilarity == InitSimilarity /\ [][NextSimilarity]_vars

\* ------------------------------------- DeduplicationEngine.analyzeDataset
\* Records of a NormalizedDataSet with the fields the analysis reads; dates
\* are their times in milliseconds.
UniversalBookmark(id, title, url, dateAdded, visitCount) ==
    [id |-> id, title |-> title, url |-> url, dateAdded |-> dateAdded,
     visitCount |-> visitCount]

UniversalHistoryEntry(id, url, visitCount, lastVisit) ==
    [id |-> id, url |-> url, visitCount |-> visitCount, lastVisit |-> lastVisit]

UniversalLogin(id, domain, username, dateLastUsed, timesUsed) ==
    [id |-> id, domain |-> domain, username |-> username,
     dateLastUsed |-> dateLastUsed, timesUsed |-> timesUsed]

DeduplicationConfig(bookmarkStrategy, historyStrategy, loginStrategy, urlSimilarityThreshold, titleSimilarityThreshold, autoApproveHighConfidence) ==
    [bookmarkStrategy |-> bookmarkStrategy, historyStrategy |-> historyStrategy,
     loginStrategy |-> loginStrategy,
     urlSimilarityThreshold |-> urlSimilarityThreshold,
     titleSimilarityThreshold |-> titleSimilarityThreshold,
     autoApproveHighConfidence |-> autoApproveHighConfidence]

BookmarkStrategies == {"keep_newest", "keep_oldest", "keep_most_used", "manual", "keep_all"}

HistoryStrategies == {"merge_visits", "keep_newest", "keep_most_visits", "manual", "keep_all"}

LoginStrategies == {"keep_newest", "keep_most_used", "manual", "keep_all"}

calculateBookmarkSimilarity(bookmark1, bookmark2) ==
    [url |-> calculateUrlSimilarity(bookmark1.url, bookmark2.url),
     title |-> calculateStringSimilarity(bookmark1.title, bookmark2.title)]

\* The test that puts the other bookmark into the group; thresholds are in
\* hundredths.
joinsGroup(sim, cfg) ==
    \/ AtLeast(sim.url, cfg.urlSimilarityThreshold)
    \/ AtLeast(sim.title, cfg.titleSimilarityThreshold) /\ Above(sim.url, 70)

\* beats letting the later of two items of the same value win.
beats_onTie(current, best, sign) == sign * current >= sign * best

\* The test of the reducers: current > best, or current < best for sign -1.
beats(current, best, sign) == sign * current > sign * best

\* items.reduce((best, current) => current[field] > best[field] ? current :
\* best) from item k on, as the position it returns.
RECURSIVE reduceKeep(_, _, _, _, _, _)
reduceKeep(list, items, field, sign, k, best) ==
    IF k > Len(items)
    THEN best
    ELSE reduceKeep(list, items, field, sign, k + 1,
                    IF beats(list[items[k]][field], list[best][field], sign)
                    THEN items[k] ELSE best)

suggestBookmarkToKeep(bookmarks, items, strategy) ==
    CASE strategy = "keep_newest" -> reduceKeep(bookmarks, items, "dateAdded", 1, 2, items[1])
      [] strategy = "keep_oldest" -> reduceKeep(bookmarks, items, "dateAdded", -1, 2, items[1])
      [] strategy = "keep_most_used" -> reduceKeep(bookmarks, items, "visitCount", 1, 2, items[1])
      [] OTHER -> items[1]

suggestHistoryToKeep(entries, items, strategy) ==
    CASE strategy = "keep_newest" -> reduceKeep(entries, items, "lastVisit", 1, 2, items[1])
      [] strategy = "keep_most_visits" -> reduceKeep(entries, items, "visitCount", 1, 2, items[1])
      [] strategy = "merge_visits" -> reduceKeep(entries, items, "visitCount", 1, 2, items[1])
      [] OTHER -> items[1]

suggestLoginToKeep(logins, items, strategy) ==
    CASE strategy = "keep_newest" -> reduceKeep(logins, items, "dateLastUsed", 1, 2, items[1])
      [] strategy = "keep_most_used" -> reduceKeep(logins, items, "timesUsed", 1, 2, items[1])
      [] OTHER -> items[1]

\* calculateGroupConfidence(items, 'bookmark')
calculateGroupConfidence(bookmarks, items) ==
    IF Len(items) = 2
    THEN LET sim == calculateBookmarkSimilarity(bookmarks[items[1]], bookmarks[items[2]])
         IN  IF sim.url.num * sim.title.den >= sim.title.num * sim.url.den
             THEN sim.url ELSE sim.title
    ELSE Ratio(80, 100)

\* A DuplicateGroup: items are positions in the analysed array of its type.
DuplicateGroup(id, type, items, confidence, suggestedKeep) ==
    [id |-> id, type |-> type, items |-> items, confidence |-> confidence,
     suggestedKeep |-> suggestedKeep]

\* markProcessed losing the id.
markProcessed_forgets(processed, id) == processed

\* processed.add(id)
markProcessed(processed, id) == processed \cup {id}

\* The inner loop of findBookmarkDuplicates from j on.
RECURSIVE bookmarkMatches(_, _, _, _, _, _)
bookmarkMatches(bookmarks, cfg, i, j, processed, duplicates) ==
    IF j > Len(bookmarks)
    THEN [processed |-> processed, duplicates |-> duplicates]
    ELSE IF bookmarks[j].id \in processed
    THEN bookmarkMatches(bookmarks, cfg, i, j + 1, processed, duplicates)
    ELSE IF joinsGroup(calculateBookmarkSimilarity(bookmarks[i], bookmarks[j]), cfg)
    THEN bookmarkMatches(bookmarks, cfg, i, j + 1,
                         markProcessed(processed, bookmarks[j].id),
                         Append(duplicates, j))
    ELSE bookmarkMatches(bookmarks, cfg, i, j + 1, processed, duplicates)

\* The outer loop of findBookmarkDuplicates from i on.
RECURSIVE bookmarkGroups(_, _, _, _, _)
bookmarkGroups(bookmarks, cfg, i, processed, duplicateGroups) ==
    IF i > Len(bookmarks)
    THEN duplicateGroups
    ELSE IF bookmarks[i].id \in processed
    THEN bookmarkGroups(bookmarks, cfg, i + 1, processed, duplicateGroups)
    ELSE LET found == bookmarkMatches(bookmarks, cfg, i, i + 1,
                                      markProcessed(processed, bookmarks[i].id), << i >>)
         IN  bookmarkGroups(bookmarks, cfg, i + 1, found.processed,
                 IF keepsGroup(found.duplicates)
                 THEN Append(duplicateGroups,
                        DuplicateGroup(<< "bookmark_dup", Len(duplicateGroups) >>,
                            "bookmark", found.duplicates,
                            calculateGroupConfidence(bookmarks, found.duplicates),
                            suggestBookmarkToKeep(bookmarks, found.duplicates,
                                                  cfg.bookmarkStrategy)))
                 ELSE duplicateGroups)

findBookmarkDuplicates(bookmarks, cfg) == bookmarkGroups(bookmarks, cfg, 1, {}, << >>)

\* The groups of findHistoryDuplicates, each with its suggestedKeep.
historyDuplicates(history, cfg) ==
    LET groups == findHistoryDuplicates(history) IN
    [g \in 1..Len(groups) |->
        DuplicateGroup(groups[g].id, groups[g].type, groups[g].items,
                       Ratio(groups[g].confidence, 100),
                       suggestHistoryToKeep(history, groups[g].items, cfg.historyStrategy))]

\* The groups of findLoginDuplicates, each with its suggestedKeep.
loginDuplicates(logins, cfg) ==
    LET groups == findLoginDuplicates(logins) IN
    [g \in 1..Len(groups) |->
        DuplicateGroup(groups[g].id, groups[g].type, groups[g].items,
                       Ratio(groups[g].confidence, 100),
                       suggestLoginToKeep(logins, groups[g].items, cfg.loginStrategy))]

\* duplicateGroups.reduce((sum, group) => sum + group.items.length - 1, 0)
RECURSIVE potentialMerges(_)
potentialMerges(duplicateGroups) ==
    IF duplicateGroups = << >>
    THEN 0
    ELSE Len(Head(duplicateGroups).items) - 1 + potentialMerges(Tail(duplicateGroups))

\* The filter of requiresUserReview, as the positions of the groups it keeps.
needsReview(duplicateGroups, cfg) ==
    {g \in 1..Len(duplicateGroups) :
        ~AtLeast(duplicateGroups[g].confidence, 90) \/ ~cfg.autoApproveHighConfidence}

DeduplicationResult(duplicateGroups, cfg) ==
    [duplicateGroups |-> duplicateGroups,
     potentialMerges |-> potentialMerges(duplicateGroups),
     estimatedReduction |-> potentialMerges(duplicateGroups),
     requiresUserReview |-> Cardinality(needsReview(duplicateGroups, cfg))]

\* The ids the normalizer gives the records of two Firefox profiles that hold
\* k and j records numbered from 1.
ProfileIds(prefix, shape) ==
    [i \in 1..(shape[1] + shape[2]) |->
        << prefix, IF i <= shape[1] THEN i ELSE i - shape[1] >>]

\* The titles and URLs of the analysed bookmarks: "a" at https://a.com, "b" at
\* https://a.com/, "a" at https://www.www.a.com, and "a" at a string that is
\* no URL.
BookmarkSamples ==
    {[title |-> << "a" >>, url |-> Url(0, 0)],
     [title |-> << "b" >>, url |-> Url(0, 1)],
     [title |-> << "a" >>, url |-> Url(2, 0)],
     [title |-> << "a" >>, url |-> Text(<< "b" >>)]}

SimilarityThresholds == {95, 100}

Dataset(bookmarks, history, logins) ==
    [bookmarks |-> bookmarks, history |-> history, logins |-> logins]

\* Bookmarks of any URLs and titles, all of one age.
InitGrouping ==
    \E shape \in PairShapes(MaxBookmarks), threshold \in SimilarityThresholds :
      \E samples \in SeqsOfLen(BookmarkSamples, shape[1] + shape[2]) :
        analysis =
          [pc |-> "called",
           dataset |->
              Dataset([i \in 1..(shape[1] + shape[2]) |->
                          UniversalBookmark(ProfileIds("ff_bm", shape)[i],
                                            samples[i].title, samples[i].url, 1, 1)],
                      << >>, << >>),
           config |-> DeduplicationConfig("keep_newest", "merge_visits", "keep_newest",
                                          threshold, 80, TRUE),
           duplicateGroups |-> << >>]

\* The field of a record the strategy compares.
KeepField(type, strategy) ==
    CASE type = "bookmark" /\ strategy = "keep_most_used" -> "visitCount"
      [] type = "bookmark" -> "dateAdded"
      [] type = "history" /\ strategy = "keep_newest" -> "lastVisit"
      [] type = "history" -> "visitCount"
      [] type = "login" /\ strategy = "keep_most_used" -> "timesUsed"
      [] OTHER -> "dateLastUsed"

\* Records of one key that differ in the field their strategy compares.
InitKeeping ==
    \E auto \in BOOLEAN :
      \/ \E strategy \in BookmarkStrategies :
          \E stamps \in SeqsUpTo(Stamps, MaxBookmarks) :
            analysis =
              [pc |-> "called",
               dataset |->
                  Dataset([i \in 1..Len(stamps) |->
                      UniversalBookmark(<< "chr_bm", i >>, << "a" >>, Url(0, 0),
                          IF KeepField("bookmark", strategy) = "dateAdded"
                          THEN stamps[i] ELSE 1,
                          IF KeepField("bookmark", strategy) = "visitCount"
                          THEN stamps[i] ELSE 1)],
                      << >>, << >>),
               config |-> DeduplicationConfig(strategy, "merge_visits", "keep_newest",
                                              95, 80, auto),
               duplicateGroups |-> << >>]
      \/ \E strategy \in HistoryStrategies :
          \E stamps \in SeqsUpTo(Stamps, MaxHistory) :
            analysis =
              [pc |-> "called",
               dataset |->
                  Dataset(<< >>,
                      [i \in 1..Len(stamps) |->
                      UniversalHistoryEntry(<< "chr_hist", i >>, Url(0, 0),
                          IF KeepField("history", strategy) = "visitCount"
                          THEN stamps[i] ELSE 1,
                          IF KeepField("history", strategy) = "lastVisit"
                          THEN stamps[i] ELSE 1)],
                      << >>),
               config |-> DeduplicationConfig("keep_newest", strategy, "keep_newest",
                                              95, 80, auto),
               duplicateGroups |-> << >>]
      \/ \E strategy \in LoginStrategies :
          \E stamps \in SeqsUpTo(Stamps, MaxBookmarks) :
            analysis =
              [pc |-> "called",
               dataset |->
                  Dataset(<< >>, << >>,
                      [i \in 1..Len(stamps) |->
                      UniversalLogin(<< "chr_login", i >>, extractDomain(Url(0, 0)), "bob",
                          IF KeepField("login", strategy) = "dateLastUsed"
                          THEN stamps[i] ELSE 1,
                          IF KeepField("login", strategy) = "timesUsed"
                          THEN stamps[i] ELSE 1)]),
               config |-> DeduplicationConfig("keep_newest", "merge_visits", strategy,
                                              95, 80, auto),
               duplicateGroups |-> << >>]

InitAnalysis ==
    /\ InitGrouping \/ InitKeeping
    /\ sourceData = << >>
    /\ targetProfilePath = "/p/a"
    /\ before = sourceData
    /\ calls = NotRunning
    /\ recovery = NotRunning
    /\ dedup = NotRunning
    /\ similarity = NotRunning
    /\ panel = NotRunning
    /\ InitNoSingleCall

analysisFrame ==
    << sourceData, targetProfilePath, config, result, pc, typeIdx, allIdx, srcIdx,
       recIdx, merged, conflicts, before, prevResult, passLog, calls, recovery,
       dedup, similarity, panel >>

\* analyzeDataset awaits findBookmarkDuplicates.
analyzeBookmarks ==
    /\ analysis.pc = "called"
    /\ analysis' = [analysis EXCEPT
          !.pc = "bookmarks",
          !.duplicateGroups =
              @ \o findBookmarkDuplicates(analysis.dataset.bookmarks, analysis.config)]
    /\ UNCHANGED analysisFrame

\* analyzeDataset awaits findHistoryDuplicates.
analyzeHistoryEntries ==
    /\ analysis.pc = "bookmarks"
    /\ analysis' = [analysis EXCEPT
          !.pc = "history",
          !.duplicateGroups =
              @ \o historyDuplicates(analysis.dataset.history, analysis.config)]
    /\ UNCHANGED analysisFrame

\* analyzeDataset awaits findLoginDuplicates.
analyzeLoginEntries ==
    /\ analysis.pc = "history"
    /\ analysis' = [analysis EXCEPT
          !.pc = "logins",
          !.duplicateGroups =
              @ \o loginDuplicates(analysis.dataset.logins, analysis.config)]
    /\ UNCHANGED analysisFrame

\* analyzeDataset counts and returns.
analyzeDataset ==
    /\ analysis.pc = "logins"
    /\ analysis' =
          [pc |-> "done", dataset |-> analysis.dataset, config |-> analysis.config,
           duplicateGroups |-> analysis.duplicateGroups,
           result |-> DeduplicationResult(analysis.duplicateGroups, analysis.config)]
    /\ UNCHANGED analysisFrame

NextAnalysis ==
    \/ analyzeBookmarks
    \/ analyzeHistoryEntries
    \/ analyzeLoginEntries
    \/ analyzeDataset

SpecAnalysis == InitAnalysis /\ [][NextAnalysis]_vars

\* ------------------------------------------------------------ vocabulary
\* The identity keys of the records of an array, in order: the normalized
\* URL for bookmarks and history, domain and username for logins.
urlKeys(list) == [i \in 1..Len(list) |-> normalizeUrl(list[i].url)]

loginKeys(list) == [i \in 1..Len(list) |-> << list[i].hostname, list[i].username >>]

\* The keys the engine's own lookups compare: the URLs as written.
rawUrlKeys(list) == [i \in 1..Len(list) |-> list[i].url]

NoRepeat(keys) == \A i, j \in 1..Len(keys) : i # j => keys[i] # keys[j]

KeySet(keys) == {keys[i] : i \in 1..Len(keys)}

HasTarget == TargetIdx # 0

\* A call that found its target has returned.
Completed == pc = "done" /\ HasTarget

\* A pass is about to put a record through its loop body.
AtRecord ==
    /\ pc \in DOMAIN PassField
    /\ srcIdx <= Len(sourceData)
    /\ ~ThrowsAt(sourceData, pc, srcIdx)

\* That record, the path it comes from and the target array it meets.
Candidate == sourceData[srcIdx][pc][recIdx]

CandidatePath == sourceData[srcIdx].path

TargetList == sourceData[TargetIdx][pc]

\* The engine's lookup finds a target record for the candidate.
Collides ==
    IF pc = "logins"
    THEN \E i \in 1..Len(TargetList) :
            /\ TargetList[i].hostname = Candidate.hostname
            /\ TargetList[i].username = Candidate.username
    ELSE \E i \in 1..Len(TargetList) : TargetList[i].url = Candidate.url

\* The entries of sourceData other than the target.
NonTarget == {i \in 1..Len(sourceData) : i # TargetIdx}

\* ------------------------------------------------------------------ claims
\* C1: after a completed mergeProfiles call with dryRun=false, each of the
\* target's bookmarks, history and logins arrays holds at most one record per
\* identity key, given that the target held at most one per key before.
C1_NoDuplicateKeys ==
    (/\ Completed
     /\ ~config.dryRun
     /\ NoRepeat(urlKeys(before[TargetIdx].bookmarks))
     /\ NoRepeat(urlKeys(before[TargetIdx].history))
     /\ NoRepeat(loginKeys(before[TargetIdx].logins)))
    => /\ NoRepeat(urlKeys(sourceData[TargetIdx].bookmarks))
       /\ NoRepeat(urlKeys(sourceData[TargetIdx].history))
       /\ NoRepeat(loginKeys(sourceData[TargetIdx].logins))

\* C2: on the same sourceData, target and config, the dry run and the real
\* run return the same per-type counts and the same totals. (prevResult is
\* the result of the dry run that the real run follows.)
C2_DryRunSameCounts ==
    (Completed /\ prevResult # NoResult)
    => /\ result.details = prevResult.details
       /\ result.mergedItems = prevResult.mergedItems
       /\ result.conflictsResolved = prevResult.conflictsResolved

\* C3: a dry run leaves the target dataset as it found it: the same records
\* in the same order with the same field values, at every point of the call.
C3_DryRunLeavesTarget ==
    (pc # "idle" /\ HasTarget /\ config.dryRun)
    => sourceData[TargetIdx] = before[TargetIdx]

\* A dry run that counted merged records and conflicts has returned.
C3_Witness ==
    /\ Completed
    /\ config.dryRun
    /\ result.mergedItems > 0
    /\ result.conflictsResolved > 0
    /\ Len(config.mergeTypes) > 1

\* The visit counts of the entries of a history array at a URL, summed.
RECURSIVE SumVisits(_, _)
SumVisits(list, url) ==
    IF list = << >>
    THEN 0
    ELSE (IF Head(list).url = url THEN Head(list).visitCount ELSE 0)
         + SumVisits(Tail(list), url)

\* The inputs of a history merge at a URL: the target's entries as the call
\* found them and the entries of every other source, each once.
RECURSIVE SumAllVisits(_, _)
SumAllVisits(data, url) ==
    IF data = << >>
    THEN 0
    ELSE SumVisits(Head(data).history, url) + SumAllVisits(Tail(data), url)

InputVisits(url) == SumAllVisits(before, url)

InputLastVisits(url) ==
    {before[i].history[k].lastVisitTime :
        <<i, k>> \in {ik \in (1..Len(before)) \X (1..MaxRecs + 1) :
                        /\ ik[2] <= Len(before[ik[1]].history)
                        /\ before[ik[1]].history[ik[2]].url = url}}

\* C4: after a history merge with dryRun=false, for every URL the target's
\* entry has visitCount equal to the sum of the visitCount of all input
\* entries with that URL, each counted once, and the latest of their
\* last-visit times.
C4_HistorySumsVisits ==
    (/\ Completed
     /\ ~config.dryRun
     /\ config.mergeTypes = << MergeDataType.HISTORY >>
     /\ NoRepeat(rawUrlKeys(before[TargetIdx].history)))
    => \A url \in MergeUrls :
         InputLastVisits(url) # {} =>
           \E k \in 1..Len(sourceData[TargetIdx].history) :
              LET entry == sourceData[TargetIdx].history[k] IN
              /\ entry.url = url
              /\ entry.visitCount = InputVisits(url)
              /\ \A t \in InputLastVisits(url) : entry.lastVisitTime >= t
              /\ entry.lastVisitTime \in InputLastVisits(url)

\* C5: a pass takes its candidate records only from the non-target entries
\* of sourceData: the record it is about to process is never one of the
\* dataset stored under targetProfilePath.
C5_TargetNeverCandidate ==
    AtRecord => srcIdx # TargetIdx

\* C6: with strategy keep_all and dryRun=false, a call whose only source
\* dataset is the target itself adds no record to any of the target's arrays
\* and leaves the set of identity keys of each array as it was.
C6_SelfMergeKeepsKeys ==
    (/\ pc # "idle"
     /\ HasTarget
     /\ Len(sourceData) = 1
     /\ ~config.dryRun
     /\ config.conflictResolution = ConflictResolution.KEEP_ALL)
    => LET now == sourceData[TargetIdx]
           was == before[TargetIdx]
       IN  /\ Len(now.bookmarks) = Len(was.bookmarks)
           /\ Len(now.history) = Len(was.history)
           /\ Len(now.logins) = Len(was.logins)
           /\ KeySet(urlKeys(now.bookmarks)) = KeySet(urlKeys(was.bookmarks))
           /\ KeySet(urlKeys(now.history)) = KeySet(urlKeys(was.history))
           /\ KeySet(loginKeys(now.logins)) = KeySet(loginKeys(was.logins))

\* Such a call has returned after meeting two of the target's own records.
C6_Witness ==
    /\ Completed
    /\ Len(sourceData) = 1
    /\ ~config.dryRun
    /\ config.conflictResolution = ConflictResolution.KEEP_ALL
    /\ result.conflictsResolved >= 2

C8_MostUsedWins ==
    (/\ Completed
     /\ ~config.dryRun
     /\ config.conflictResolution = "keep_most_used"
     /\ NoRepeat(rawUrlKeys(before[TargetIdx].bookmarks))
     /\ NoRepeat(loginKeys(before[TargetIdx].logins)))
    => \A i \in 1..Len(before) :
         /\ \A k \in 1..Len(before[i].bookmarks) :
              \A j \in 1..Len(sourceData[TargetIdx].bookmarks) :
                 sourceData[TargetIdx].bookmarks[j].url = before[i].bookmarks[k].url
                 => sourceData[TargetIdx].bookmarks[j].visitCount
                      >= before[i].bookmarks[k].visitCount
         /\ \A k \in 1..Len(before[i].logins) :
              \A j \in 1..Len(sourceData[TargetIdx].logins) :
                 (/\ sourceData[TargetIdx].logins[j].hostname = before[i].logins[k].hostname
                  /\ sourceData[TargetIdx].logins[j].username = before[i].logins[k].username)
                 => sourceData[TargetIdx].logins[j].timesUsed
                      >= before[i].logins[k].timesUsed

\* C9: in a real merge, a candidate whose key no target record holds is
\* appended once at the end of the target array, with every field it had
\* (its source among them) and mergedFrom set to the path it came from; the
\* pass counts it as merged, not as a conflict, and no record of the target
\* changes.
C9_AppendsNewRecord ==
    [][(AtRecord /\ ~config.dryRun /\ ~Collides)
       => LET new == sourceData'[TargetIdx][pc]
              last == new[Len(new)]
          IN  /\ Len(new) = Len(TargetList) + 1
              /\ \A i \in 1..Len(TargetList) : new[i] = TargetList[i]
              /\ DOMAIN last = DOMAIN Candidate \cup {"mergedFrom"}
              /\ last.mergedFrom = CandidatePath
              /\ \A f \in DOMAIN Candidate \ {"mergedFrom"} : last[f] = Candidate[f]
              /\ last.source = Candidate.source
              /\ merged' = merged + 1
              /\ conflicts' = conflicts
              /\ \A f \in DOMAIN PassField \ {pc} :
                    sourceData'[TargetIdx][f] = sourceData[TargetIdx][f]]_vars

\* A real call has returned with a record in the target that came from
\* another profile.
C9_Witness ==
    /\ Completed
    /\ ~config.dryRun
    /\ \E f \in DOMAIN PassField :
         /\ Len(sourceData[TargetIdx][f]) > Len(before[TargetIdx][f])
         /\ LET last == sourceData[TargetIdx][f][Len(sourceData[TargetIdx][f])]
            IN  last.mergedFrom # targetProfilePath /\ last.source = last.mergedFrom

\* The concrete data types a call was asked for: those listed before the
\* first ALL, or all of allTypes once ALL is listed.
Selected ==
    {config.mergeTypes[k] : k \in {n \in 1..Len(config.mergeTypes) :
        \A m \in 1..n : config.mergeTypes[m] # MergeDataType.ALL}}
    \cup (IF \E k \in 1..Len(config.mergeTypes) : config.mergeTypes[k] = MergeDataType.ALL
          THEN {allTypes[k] : k \in 1..Len(allTypes)}
          ELSE {})

\* C10: the merge of an unimplemented data type (cookies, extensions, form
\* history, permissions, sessions) sets that type's counters to 0, adds no
\* error, changes no dataset and no other counter, and hands control back to
\* the loop; the call then runs every other selected type and reports
\* success, unless the merge of another type threw.
C10_PlaceholderIsHarmless ==
    /\ [][(AtType /\ CurrentType \in DOMAIN PlaceholderKey)
          => /\ sourceData' = sourceData
             /\ result'.errors = result.errors
             /\ result'.details[PlaceholderKey[CurrentType]]
                  = [merged |-> 0, conflicts |-> 0]
             /\ \A k \in DetailKeys \ {PlaceholderKey[CurrentType]} :
                   result'.details[k] = result.details[k]
             /\ pc' = "loop"]_vars
    /\ [](Completed
          => /\ result.success = (result.errors = << >>)
             /\ \A e \in 1..Len(result.errors) : result.errors[e][2] \in DOMAIN PassOf
             /\ (\A i \in 1..Len(sourceData) : sourceData[i].missing = {})
                   => result.success
             /\ \A t \in Selected \cap (DOMAIN PassOf \cup DOMAIN PlaceholderKey) :
                   \E k \in 1..Len(passLog) : passLog[k] = t)

\* A call asked for a placeholder type and then for bookmarks has returned
\* with bookmarks merged.
C10_Witness ==
    /\ Completed
    /\ Len(passLog) = 2
    /\ passLog[1] \in DOMAIN PlaceholderKey
    /\ passLog[2] = MergeDataType.BOOKMARKS
    /\ result.details.bookmarks.merged > 0
    /\ result.success

\* C11: a call whose targetProfilePath is not a key of sourceData runs no
\* data type: it returns success=false with the single error 'Merge failed:
\* Target profile data not found', every per-type counter and both totals 0,
\* and every dataset of sourceData as it was.
C11_MissingTargetAborts ==
    (pc = "done" /\ ~HasTarget)
    => /\ result.success = FALSE
       /\ Len(result.errors) = 1
       /\ result.errors[1][1] = "Merge failed:"
       /\ result.errors[1][3] = targetProfilePath
       /\ result.details = ZeroDetails
       /\ result.mergedItems = 0
       /\ result.conflictsResolved = 0
       /\ passLog = << >>
       /\ sourceData = before

\* A call asked for data types over a map that holds records, none under the
\* target's path, has returned.
C11_Witness ==
    /\ pc = "done"
    /\ ~HasTarget
    /\ Len(config.mergeTypes) > 0
    /\ \E i \in 1..Len(sourceData) : Len(sourceData[i].bookmarks) > 0

\* A pass is at an entry whose array is missing: its next step throws.
AtThrow ==
    /\ pc \in DOMAIN PassField
    /\ srcIdx <= Len(sourceData)
    /\ ThrowsAt(sourceData, pc, srcIdx)

\* C12: when the merge of a data type throws, one entry naming that type is
\* added to result.errors and the loop goes on to the next type; the call
\* then returns success=false, with every selected type run and with totals
\* that are the sums of the per-type counters.
C12_TypeFailureIsIsolated ==
    /\ [][AtThrow
          => /\ Len(result'.errors) = Len(result.errors) + 1
             /\ result'.errors[Len(result'.errors)][1] = "Failed to merge"
             /\ result'.errors[Len(result'.errors)][2] = CurrentType
             /\ pc' = "loop"
             /\ sourceData' = sourceData]_vars
    /\ [](\A k \in 1..Len(passLog) :
             (/\ passLog[k] \in DOMAIN PassOf
              /\ \E i \in 1..Len(sourceData) :
                    PassField[PassOf[passLog[k]]] \in sourceData[i].missing
              /\ (k < Len(passLog) \/ pc \in {"loop", "done"}))
             => \E e \in 1..Len(result.errors) : result.errors[e][2] = passLog[k])
    /\ []((Completed /\ result.errors # << >>)
          => /\ result.success = FALSE
             /\ result.mergedItems = SumMerged(result.details)
             /\ result.conflictsResolved = SumConflicts(result.details)
             /\ \A t \in Selected \cap (DOMAIN PassOf \cup DOMAIN PlaceholderKey) :
                   \E k \in 1..Len(passLog) : passLog[k] = t)

\* A call whose first data type threw has returned after merging records of
\* its second.
C12_Witness ==
    /\ Completed
    /\ Len(result.errors) = 1
    /\ Len(passLog) = 2
    /\ result.errors[1][2] = passLog[1]
    /\ passLog[2] \in DOMAIN PassOf
    /\ result.details[PassOf[passLog[2]]].merged > 0
    /\ result.mergedItems > 0
    /\ ~result.success

\* C14: a call leaves every entry of sourceData other than the target as it
\* found it: the same bookmarks, history and logins, record by record, at
\* every point of the call, dry run or not, whatever the strategy.
C14_SourcesAreReadOnly ==
    pc # "idle" => \A i \in NonTarget : sourceData[i] = before[i]

\* A real call has returned after changing the target with the records of
\* another profile, some of them appended and some meeting a record of the
\* target.
C14_Witness ==
    /\ Completed
    /\ ~config.dryRun
    /\ result.conflictsResolved > 0
    /\ sourceData[TargetIdx] # before[TargetIdx]
    /\ \E i \in NonTarget, f \in DOMAIN PassField :
          /\ Len(before[i][f]) > 0
          /\ Len(sourceData[TargetIdx][f]) > Len(before[TargetIdx][f])

\* C13: two overlapping calls on the same target never interleave their use
\* of it: once the other call's pass has used the target, no pass of the
\* first call uses it again.
C13_TargetExclusivelyOwned ==
    calls.pc = "on"
    => ~\E i, j, k \in 1..Len(calls.touched) :
          /\ i < j
          /\ j < k
          /\ calls.touched[i] = calls.touched[k]
          /\ calls.touched[i] # calls.touched[j]

\* recoverDatabase has returned for a corrupted file.
RecoveredCorrupted == recovery.pc = "done" /\ recovery.integrityCheck.isCorrupted

\* C15: for a corrupted, recoverable database .dump is the first method
\* attempted, and .recover is attempted only second, after a .dump that
\* brought back no table; a run whose .dump brought back a table never
\* attempts .recover.
C15_DumpBeforeRecover ==
    recovery.pc # "off"
    => /\ \A k \in 1..Len(recovery.attempts) :
             /\ k = 1 => recovery.attempts[k] = "dump"
             /\ recovery.attempts[k] = "recover"
                  => /\ k = 2
                     /\ recovery.dumpResult.recoveredTables = {}
       /\ (RecoveredCorrupted /\ recovery.integrityCheck.recoverable)
             => /\ recovery.attempts # << >>
                /\ recovery.dumpResult.recoveredTables # {}
                     => recovery.attempts = << "dump" >>

\* A run that went on to .recover after an empty .dump has returned what
\* .recover brought back.
C15_Witness ==
    /\ RecoveredCorrupted
    /\ recovery.attempts = << "dump", "recover" >>
    /\ recovery.result.method = "recover"
    /\ recovery.result.success

\* C16: every run on a corrupted file ends, and ends either Recovered
\* (success, method dump or recover, at least one recovered table) or
\* Unrecoverable (no success, no recovered table, lostData naming the entire
\* database).
C16_RecoveredOrUnrecoverable ==
    /\ [](RecoveredCorrupted
          => LET r == recovery.result
                 Recovered == /\ r.success
                              /\ r.method \in {"dump", "recover"}
                              /\ r.recoveredTables # {}
                 Unrecoverable == /\ ~r.success
                                  /\ r.recoveredTables = {}
                                  /\ r.lostData = {"entire_database"}
             IN  (Recovered \/ Unrecoverable) /\ ~(Recovered /\ Unrecoverable))
    /\ <>(recovery.pc = "done")

\* A run has returned Unrecoverable after both methods brought back nothing.
C16_Witness ==
    /\ RecoveredCorrupted
    /\ recovery.attempts = << "dump", "recover" >>
    /\ recovery.result.method = "manual_export"
    /\ ~recovery.result.success

\* C17: in the result for a corrupted file every table of the schema is
\* either in recoveredTables or in lostData, never in both, or lostData names
\* the entire database.
C17_NoTableSilentlyDropped ==
    RecoveredCorrupted
    => LET r == recovery.result IN
       \/ r.lostData = {"entire_database"}
       \/ /\ r.recoveredTables \cap r.lostData = {}
          /\ r.recoveredTables \cup r.lostData = Schema

\* C18: for a corrupted file the integrity check reports as not recoverable,
\* recoverDatabase attempts no method and returns no success, no recovered
\* table, lostData naming the entire database, and the integrity check's
\* message as its error log.
C18_UnrecoverableSkipsMethods ==
    (RecoveredCorrupted /\ ~recovery.integrityCheck.recoverable)
    => /\ recovery.attempts = << >>
       /\ ~recovery.result.success
       /\ recovery.result.recoveredTables = {}
       /\ recovery.result.lostData = {"entire_database"}
       /\ recovery.result.errorLog = << recovery.integrityCheck.errorMessage >>

\* recoverDatabase has returned for an empty file, reported as a header
\* corruption that is not recoverable.
C18_Witness ==
    /\ RecoveredCorrupted
    /\ ~recovery.integrityCheck.recoverable
    /\ recovery.integrityCheck.errorType = "header"
    /\ recovery.fileSize = 0
    /\ recovery.result.errorLog = << "Database file is empty" >>

\* The duplicate groups of a type that hold position i of the analysed array.
GroupsWith(type, i) ==
    {g \in 1..Len(dedup.duplicateGroups) :
        /\ dedup.duplicateGroups[g].type = type
        /\ \E m \in 1..Len(dedup.duplicateGroups[g].items) :
              dedup.duplicateGroups[g].items[m] = i}

\* C19: after the history analysis two entries are in the same duplicate
\* group exactly when their normalized URLs are equal; an entry is in at most
\* one group, an entry whose normalized URL no other entry has is in none,
\* and every history group has two or more entries and confidence 1.0.
C19_HistoryGroupsByNormalizedUrl ==
    dedup.pc \in {"history", "done"}
    => LET history == dedup.dataset.history IN
       /\ \A i, j \in 1..Len(history) :
             i # j =>
               ((GroupsWith("history", i) \cap GroupsWith("history", j) # {})
                <=> normalizeUrl(history[i].url) = normalizeUrl(history[j].url))
       /\ \A i \in 1..Len(history) :
             /\ Cardinality(GroupsWith("history", i)) <= 1
             /\ (\A j \in 1..Len(history) :
                    j # i => normalizeUrl(history[j].url) # normalizeUrl(history[i].url))
                  => GroupsWith("history", i) = {}
       /\ \A g \in 1..Len(dedup.duplicateGroups) :
             dedup.duplicateGroups[g].type = "history"
             => /\ Len(dedup.duplicateGroups[g].items) >= 2
                /\ NoRepeat(dedup.duplicateGroups[g].items)
                /\ dedup.duplicateGroups[g].confidence = 100

\* The analysis has grouped two entries whose URLs differ as written and
\* left out a third entry with a URL of its own.
C19_Witness ==
    /\ dedup.pc = "done"
    /\ LET history == dedup.dataset.history IN
       \E i, j, k \in 1..Len(history) :
          /\ history[i].url # history[j].url
          /\ GroupsWith("history", i) \cap GroupsWith("history", j) # {}
          /\ GroupsWith("history", k) = {}

\* C20: after the analysis any two logins with the same domain and username
\* that come from different profiles are together in a login duplicate group
\* of confidence 0.95, whatever their password payload and their ids.
C20_SameLoginAlwaysGrouped ==
    dedup.pc = "done"
    => LET logins == dedup.dataset.logins IN
       \A i, j \in 1..Len(logins) :
          (/\ i # j
           /\ logins[i].domain = logins[j].domain
           /\ logins[i].username = logins[j].username
           /\ logins[i].sourceProfile # logins[j].sourceProfile)
          => \E g \in GroupsWith("login", i) \cap GroupsWith("login", j) :
                dedup.duplicateGroups[g].confidence = 95

\* The timestamp keep_newest compares: lastModified of a bookmark,
\* timeLastUsed of a login.
NewestStamp(field, record) ==
    IF field = "logins" THEN record.timeLastUsed ELSE record.lastModified

\* Two records of one array have the key the engine's lookup compares.
SameKey(field, a, b) ==
    IF field = "logins"
    THEN a.hostname = b.hostname /\ a.username = b.username
    ELSE a.url = b.url

\* The target record the engine's lookup finds for the candidate.
Found ==
    IF pc = "logins"
    THEN findLogin(TargetList, Candidate)
    ELSE findBookmark(TargetList, Candidate)

RECURSIVE WithMerge(_)
WithMerge(types) ==
    IF types = << >>
    THEN << >>
    ELSE (IF Head(types) \in DOMAIN PassOf \cup DOMAIN PlaceholderKey
          THEN << Head(types) >> ELSE << >>) \o WithMerge(Tail(types))

\* C29: in a call whose mergeTypes names no type twice, no data type's merge
\* runs twice; without ALL the merges run in the listed order, and with ALL
\* the eight concrete types run once each in the order of allTypes, the
\* entries after ALL never.
C29_EachTypeOnce ==
    (Completed /\ NoRepeat(config.mergeTypes))
    => /\ NoRepeat(passLog)
       /\ IF \E k \in 1..Len(config.mergeTypes) : config.mergeTypes[k] = MergeDataType.ALL
          THEN passLog = allTypes
          ELSE passLog = WithMerge(config.mergeTypes)

\* C30: from an empty list or [ALL], whatever buttons are pressed, the
\* mergeTypes list never holds ALL next to a concrete type and never holds a
\* type twice.
C30_SelectionStaysConsistent ==
    panel.pc = "shown"
    => /\ NoRepeat(panel.config.mergeTypes)
       /\ includes(panel.config.mergeTypes, MergeDataType.ALL)
             => panel.config.mergeTypes = << MergeDataType.ALL >>

\* The panel started at [ALL] and now lists two concrete types.
C30_Witness ==
    /\ panel.pc = "shown"
    /\ panel.initial = << MergeDataType.ALL >>
    /\ Len(panel.config.mergeTypes) = 2

\* C25: normalizing a normalized URL changes nothing:
\* normalizeUrl(normalizeUrl(u)) = normalizeUrl(u) for every string u.
C25_NormalizeIdempotent ==
    similarity.pc = "normalized twice" => similarity.twice = similarity.once

\* C26: calculateStringSimilarity and calculateUrlSimilarity give the same
\* value for (a, b) and for (b, a), and 1.0 for (a, a).
C26_SimilaritySymmetric ==
    similarity.pc = "compared"
    => /\ SameRatio(similarity.string, similarity.stringBack)
       /\ SameRatio(similarity.url, similarity.urlBack)
       /\ SameRatio(similarity.stringSelf, Ratio(1, 1))
       /\ SameRatio(similarity.urlSelf, Ratio(1, 1))

\* Two strings of different lengths have been compared and the edit
\* distance has put both similarities strictly between 0 and 1.
C26_Witness ==
    /\ similarity.pc = "compared"
    /\ Len(chars(similarity.a)) < Len(chars(similarity.b))
    /\ 0 < similarity.string.num /\ similarity.string.num < similarity.string.den
    /\ 0 < similarity.url.num /\ similarity.url.num < similarity.url.den
    /\ ~SameRatio(similarity.url, Ratio(80, 100))
    /\ ~SameRatio(similarity.url, Ratio(95, 100))

\* The array of the dataset a group of a type is made from.
TypeField == [bookmark |-> "bookmarks", history |-> "history", login |-> "logins"]

\* The strategy the config holds for a type.
StrategyOf(cfg, type) ==
    CASE type = "bookmark" -> cfg.bookmarkStrategy
      [] type = "history" -> cfg.historyStrategy
      [] OTHER -> cfg.loginStrategy

\* The groups of a type that hold position i of the analysed array.
Holding(type, i) ==
    {g \in 1..Len(analysis.duplicateGroups) :
        /\ analysis.duplicateGroups[g].type = type
        /\ \E k \in 1..Len(analysis.duplicateGroups[g].items) :
              analysis.duplicateGroups[g].items[k] = i}

\* The bookmark groups have been made.
BookmarksAnalysed == analysis.pc \in {"bookmarks", "history", "logins", "done"}

\* Bookmarks i and j satisfy the test of the analysis.
Similar(i, j) ==
    joinsGroup(calculateBookmarkSimilarity(analysis.dataset.bookmarks[i],
                                           analysis.dataset.bookmarks[j]),
               analysis.config)

\* C21: every member of a bookmark group satisfies the similarity test with
\* the bookmark that opened the group, and a bookmark that no earlier group
\* holds is in the group of an earlier bookmark, itself no member of another
\* bookmark's group, whenever the two satisfy the test.
C21_JoinsExactlyWhenSimilar ==
    BookmarksAnalysed
    => /\ \A g \in 1..Len(analysis.duplicateGroups) :
             analysis.duplicateGroups[g].type = "bookmark"
             => \A k \in 2..Len(analysis.duplicateGroups[g].items) :
                   Similar(analysis.duplicateGroups[g].items[1],
                           analysis.duplicateGroups[g].items[k])
       /\ \A i, j \in 1..Len(analysis.dataset.bookmarks) :
             (/\ i < j
              /\ \A g \in Holding("bookmark", i) :
                    analysis.duplicateGroups[g].items[1] = i
              /\ \A g \in Holding("bookmark", j) :
                    analysis.duplicateGroups[g].items[1] >= i
              /\ Similar(i, j))
             => \E g \in Holding("bookmark", i) \cap Holding("bookmark", j) :
                   analysis.duplicateGroups[g].items[1] = i

\* Two URLs that parse and differ in their trailing slashes only.
DifferBySlash(url1, url2) ==
    /\ "text" \notin DOMAIN url1
    /\ "text" \notin DOMAIN url2
    /\ url1.host = url2.host
    /\ url1.www = url2.www
    /\ url1.slashes # url2.slashes

\* C22: two bookmarks whose URLs differ by a trailing slash only have URL
\* similarity 0.95 at least and, with urlSimilarityThreshold at 0.95 or
\* below, are in one duplicate group.
C22_TrailingSlashGrouped ==
    BookmarksAnalysed
    => \A i, j \in 1..Len(analysis.dataset.bookmarks) :
          (i # j /\ DifferBySlash(analysis.dataset.bookmarks[i].url,
                                  analysis.dataset.bookmarks[j].url))
          => /\ AtLeast(calculateUrlSimilarity(analysis.dataset.bookmarks[i].url,
                                               analysis.dataset.bookmarks[j].url), 95)
             /\ analysis.config.urlSimilarityThreshold <= 95
                   => Holding("bookmark", i) \cap Holding("bookmark", j) # {}

\* The sign of the comparison a strategy makes on KeepField, 0 for a strategy
\* that selects by no field.
KeepSign(type, strategy) ==
    CASE strategy = "keep_newest" -> 1
      [] type = "bookmark" /\ strategy = "keep_oldest" -> -1
      [] type # "history" /\ strategy = "keep_most_used" -> 1
      [] type = "history" /\ strategy = "keep_most_visits" -> 1
      [] OTHER -> 0

\* C23: the suggestedKeep of every group is one of its members; under a
\* newest, oldest or most-used strategy no member beats it on the field the
\* strategy compares, and the members that equal it there come after it in
\* the input.
C23_SuggestedKeepFollowsStrategy ==
    \A g \in 1..Len(analysis.duplicateGroups) :
       LET group == analysis.duplicateGroups[g]
           list == analysis.dataset[TypeField[group.type]]
           strategy == StrategyOf(analysis.config, group.type)
           field == KeepField(group.type, strategy)
           sign == KeepSign(group.type, strategy)
       IN  /\ \E k \in 1..Len(group.items) : group.items[k] = group.suggestedKeep
           /\ sign # 0
                => \A k \in 1..Len(group.items) :
                      /\ sign * list[group.items[k]][field]
                           <= sign * list[group.suggestedKeep][field]
                      /\ list[group.items[k]][field] = list[group.suggestedKeep][field]
                           => group.items[k] >= group.suggestedKeep

\* A group of three holds two members that tie on the strategy's field ahead
\* of the third, and the suggestion is not the group's first member.
C23_Witness ==
    /\ analysis.pc = "done"
    /\ \E g \in 1..Len(analysis.duplicateGroups) :
          LET group == analysis.duplicateGroups[g]
              list == analysis.dataset[TypeField[group.type]]
              strategy == StrategyOf(analysis.config, group.type)
              field == KeepField(group.type, strategy)
          IN  /\ KeepSign(group.type, strategy) # 0
              /\ Len(group.items) >= 3
              /\ group.suggestedKeep = group.items[2]
              /\ list[group.items[3]][field] = list[group.items[2]][field]

\* C24: every group of a type whose strategy is manual is counted in
\* requiresUserReview, whatever its confidence and autoApproveHighConfidence.
C24_ManualAlwaysReviewed ==
    analysis.pc = "done"
    => analysis.result.requiresUserReview
         >= Cardinality({g \in 1..Len(analysis.duplicateGroups) :
               StrategyOf(analysis.config, analysis.duplicateGroups[g].type) = "manual"})

\* C28: every duplicate group holds two records at least, all of them
\* different records of the array of the group's type, and no record is in
\* two groups of its type.
C28_GroupsDisjoint ==
    /\ \A g \in 1..Len(analysis.duplicateGroups) :
          LET group == analysis.duplicateGroups[g] IN
          /\ Len(group.items) >= 2
          /\ NoRepeat(group.items)
          /\ \A k \in 1..Len(group.items) :
                group.items[k] \in 1..Len(analysis.dataset[TypeField[group.type]])
    /\ \A type \in DOMAIN TypeField :
          \A i \in 1..Len(analysis.dataset[TypeField[type]]) :
             Cardinality(Holding(type, i)) <= 1

\* The analysis has returned two bookmark groups, the second opened by a
\* bookmark that met the first group's opener and did not join it.
C28_Witness ==
    /\ analysis.pc = "done"
    /\ \E g, h \in 1..Len(analysis.duplicateGroups) :
          /\ g < h
          /\ analysis.duplicateGroups[g].type = "bookmark"
          /\ analysis.duplicateGroups[h].type = "bookmark"
          /\ analysis.duplicateGroups[g].items[1] < analysis.duplicateGroups[h].items[1]
====
